---- MODULE Spec2Model ----
(***************************************************************************)
(* State-machine model of the GainForest IPFS archiver: the record store   *)
(* (DatabaseService over the PostgreSQL schema of migration 001), the      *)
(* per-identifier pipeline (EcocertService.processEcocert / processUrl /   *)
(* processBatch) and the retry scheduler (GainForestArchiver.              *)
(* retryFailedArchives / retryArchiveRecord).                              *)
(*                                                                         *)
(* Conventions.                                                            *)
(*  - A message (Error.message, error_message) is a sequence of text       *)
(*    tokens; template strings concatenate with \o; the empty string is    *)
(*    <<>>.  SQL NULL / JS undefined of a message is NullMsg.              *)
(*  - Timestamps are whole minutes; SQL NULL of a timestamp is NoTime.     *)
(*  - One action is one awaited call of the source (the points at which    *)
(*    the single-threaded event loop can interleave other tasks).          *)
(*  - A store statement can fail (connection loss, constraint violation);  *)
(*    the injected failures are counted in `faults`.                       *)
(***************************************************************************)
EXTENDS Integers, Sequences, FiniteSets, TLC

(***************************************************************************)
(* Bounds of the model.                                                    *)
(***************************************************************************)
MaxFaults == 1
MaxRecords == 2
MaxCount == 2
MaxNow == 7
QueryRows == 2

(***************************************************************************)
(* Program constants.                                                      *)
(***************************************************************************)
maxRetries == 3
retryDelayMinutes == 5
maxQueryLimit == 200
maxConcurrent == 2

(***************************************************************************)
(* Value domains.                                                          *)
(***************************************************************************)
EcocertIds == {"e1", "e2", "e3"}
MalformedId == "not-an-ecocert-id"
InputIds == EcocertIds \cup {MalformedId}
Uids == {"att_001", "att_002"}
Contents == {"c1", "c2"}
ArchiveStatus == {"pending", "downloading", "uploading", "completed", "failed"}
NoTime == -1
NullMsg == <<"NULL">>
NoRow == "none"

VARIABLES ecocerts, attestations, archived_content, now, faults, lastQuery,
          lastCall, ids, batch, task, runner, app, dl, up

storeVars == <<ecocerts, attestations, archived_content>>
pipeVars == <<ids, batch, task>>
vars == <<ecocerts, attestations, archived_content, now, faults, lastQuery,
          lastCall, ids, batch, task, runner, app, dl, up>>

(***************************************************************************)
(* The store: three tables.  ecocerts is keyed by id (present = the row     *)
(* exists); attestations maps a uid to its ecocert_id (NoRow = no row);    *)
(* archived_content is the sequence of rows in id order (serial ids).       *)
(***************************************************************************)
DB == [ecocerts |-> ecocerts, attestations |-> attestations,
       archived_content |-> archived_content]

EmptyEcocert == [present |-> FALSE, title |-> <<>>, created_at |-> NoTime,
                 processed_at |-> NoTime,
                 attestation_count |-> 0, archived_content_count |-> 0]

EmptyDB == [ecocerts |-> [e \in EcocertIds |-> EmptyEcocert],
            attestations |-> [u \in Uids |-> NoRow],
            archived_content |-> <<>>]

\* The title of a row that was in the store before the modelled calls.
SeedTitle == <<"Ecocert ", "seeded">>

Min(a, b) == IF a < b THEN a ELSE b

\* JS truthiness of an optional string argument.
Truthy(m) == m # <<>> /\ m # NullMsg

\* A rejected transaction callback rolls every statement of it back.
RollbackKeepsPartial(before, partial) == partial
Rollback(before, partial) == before

Ok(db) == [ok |-> TRUE, db |-> db, msg |-> <<>>, id |-> 0]
Thrown(db, msg) == [ok |-> FALSE, db |-> db, msg |-> msg, id |-> 0]

\* DatabaseService.ensureInitialized, the first statement of every store
\* operation: it throws, outside the operation's try block, unless
\* initialize() has set isInitialized and destroy() has not reset it.
NotInitialized == <<"Database service not initialized">>
EnsureInitializedSkipped(db, r) == r
EnsureInitialized(db, r) ==
  IF app.dbInitialized THEN r ELSE Thrown(db, NotInitialized)

\* The row INSERT INTO ecocerts writes: the caller's fields, created_at =
\* new Date() and both counters 0.
NewEcocert(title, t) ==
  [present |-> TRUE, title |-> title, created_at |-> t,
   processed_at |-> NoTime,
   attestation_count |-> 0, archived_content_count |-> 0]

\* The title processEcocert gives the ecocert: 'Ecocert ' and the tail of
\* its token id.
TitleOf(id) == <<"Ecocert ", id>>

\* insertEcocert with ON CONFLICT (id) DO UPDATE in place of DO NOTHING.
InsertEcocertOverwrite(db, id, title, t, fault) ==
  IF fault # "none" THEN Thrown(db, <<"Failed to insert ecocert ", id>>)
  ELSE Ok([db EXCEPT !.ecocerts[id] = NewEcocert(title, t)])

\* insertEcocert: INSERT ... ON CONFLICT (id) DO NOTHING.
InsertEcocert(db, id, title, t, fault) ==
  IF fault # "none" THEN Thrown(db, <<"Failed to insert ecocert ", id>>)
  ELSE IF db.ecocerts[id].present THEN Ok(db)
  ELSE Ok([db EXCEPT !.ecocerts[id] = NewEcocert(title, t)])

\* markEcocertProcessed: UPDATE ecocerts SET processed_at = now WHERE id.
MarkEcocertProcessedOnce(db, id, t, fault) ==
  IF fault # "none"
    THEN Thrown(db, <<"Failed to mark ecocert ", id, " as processed">>)
  ELSE IF id \notin EcocertIds \/ ~db.ecocerts[id].present
    THEN Thrown(db, <<"Ecocert ", id, " not found">>)
  ELSE IF db.ecocerts[id].processed_at # NoTime THEN Ok(db)
  ELSE Ok([db EXCEPT !.ecocerts[id].processed_at = t])

MarkEcocertProcessed(db, id, t, fault) ==
  IF fault # "none"
    THEN Thrown(db, <<"Failed to mark ecocert ", id, " as processed">>)
  ELSE IF id \notin EcocertIds \/ ~db.ecocerts[id].present
    THEN Thrown(db, <<"Ecocert ", id, " not found">>)
  ELSE Ok([db EXCEPT !.ecocerts[id].processed_at = t])

\* The INSERT and UPDATE statements of insertAttestation, applied in turn.
AttestationStatements(db, uid, ecocert_id) ==
  LET inserted == IF db.attestations[uid] = NoRow
                    THEN [db EXCEPT !.attestations[uid] = ecocert_id]
                    ELSE db                      \* onConflict('uid').ignore()
  IN  [afterInsert |-> inserted,
       afterIncrement |->
         [inserted EXCEPT !.ecocerts[ecocert_id].attestation_count = @ + 1]]

\* insertAttestation without the SELECT of the parent: the INSERT goes
\* ahead and the counter UPDATE matches no row.
InsertAttestationUnchecked(db, uid, ecocert_id, fault) ==
  IF fault # "none"
    THEN Thrown(db, <<"Failed to insert attestation ", uid>>)
  ELSE IF ecocert_id \notin EcocertIds \/ ~db.ecocerts[ecocert_id].present
    THEN Ok(AttestationStatements(db, uid, ecocert_id).afterInsert)
  ELSE Ok(AttestationStatements(db, uid, ecocert_id).afterIncrement)

\* insertAttestation: one transaction of SELECT parent, INSERT .. ON
\* CONFLICT (uid) DO NOTHING, UPDATE ecocerts SET attestation_count + 1.
InsertAttestation(db, uid, ecocert_id, fault) ==
  IF fault = "s1"
    THEN Thrown(db, <<"Failed to insert attestation ", uid>>)
  ELSE IF ecocert_id \notin EcocertIds \/ ~db.ecocerts[ecocert_id].present
    THEN Thrown(db, <<"Ecocert ", ecocert_id, " not found">>)
  ELSE LET st == AttestationStatements(db, uid, ecocert_id) IN
    IF fault = "s2"
      THEN Thrown(Rollback(db, db), <<"Failed to insert attestation ", uid>>)
    ELSE IF fault = "s3"
      THEN Thrown(Rollback(db, st.afterInsert),
                  <<"Failed to insert attestation ", uid>>)
    ELSE Ok(st.afterIncrement)

\* The constraints of archived_content an INSERT must satisfy: both foreign
\* keys and UNIQUE (ipfs_hash).
HashTaken(tbl, hash, exceptId) ==
  \E i \in 1..Len(tbl) : i # exceptId /\ tbl[i].ipfs_hash = hash

InsertConstraintsHold(db, content) ==
  /\ content.ecocert_id \in EcocertIds
  /\ db.ecocerts[content.ecocert_id].present
  /\ content.attestation_uid \in Uids
  /\ db.attestations[content.attestation_uid] # NoRow
  /\ ~HashTaken(db.archived_content, content.ipfs_hash, 0)

NewRow(id, content) ==
  [id |-> id,
   ecocert_id |-> content.ecocert_id,
   attestation_uid |-> content.attestation_uid,
   original_url |-> content.original_url,
   ipfs_hash |-> content.ipfs_hash,
   ipfs_url |-> content.ipfs_url,
   status |-> IF content.status = "" THEN "pending" ELSE content.status,
   error_message |-> NullMsg,
   retry_count |-> 0,
   last_retry_at |-> NoTime]

\* insertArchivedContent: one transaction of INSERT .. RETURNING id and
\* UPDATE ecocerts SET archived_content_count + 1.
InsertArchivedContent(db, content, fault) ==
  LET failed == Thrown(db, <<"Failed to insert archived content record">>)
      id == Len(db.archived_content) + 1
      afterInsert ==
        [db EXCEPT !.archived_content = Append(@, NewRow(id, content))]
      afterIncrement ==
        [afterInsert EXCEPT
           !.ecocerts[content.ecocert_id].archived_content_count = @ + 1]
  IN  IF fault = "s1" \/ ~InsertConstraintsHold(db, content)
        THEN failed
      ELSE IF fault = "s2"
        THEN [failed EXCEPT !.db = Rollback(db, afterInsert)]
      ELSE [Ok(afterIncrement) EXCEPT !.id = id]

\* The guard of updateArchiveStatus that decides whether a transition into
\* failed is counted as a retry.
CountsAsFailure(status, errorMessage) ==
  status = "failed" /\ Truthy(errorMessage)

\* updateArchiveStatus without the check of the affected row count.
UpdateArchiveStatusSilent(db, id, status, errorMessage, t, fault) ==
  LET tbl == db.archived_content
      exists == id \in 1..Len(tbl)
      wrapped == <<"Failed to update archive status for record ", ToString(id)>>
      counted == CountsAsFailure(status, errorMessage)
      hasFirst == counted \/ status = "completed"
      afterFirst ==
        IF ~exists THEN db
        ELSE IF counted
          THEN [db EXCEPT !.archived_content[id].retry_count = @ + 1]
        ELSE IF status = "completed"
          THEN [db EXCEPT !.archived_content[id].error_message = NullMsg]
        ELSE db
      afterLast ==
        IF counted
          THEN [afterFirst EXCEPT
                  !.archived_content[id].status = status,
                  !.archived_content[id].error_message = errorMessage,
                  !.archived_content[id].last_retry_at = t]
          ELSE [afterFirst EXCEPT !.archived_content[id].status = status]
  IN  IF fault = "s1" /\ hasFirst THEN Thrown(db, wrapped)
      ELSE IF fault # "none" THEN Thrown(afterFirst, wrapped)
      ELSE IF ~exists THEN Ok(db)
      ELSE Ok(afterLast)

\* updateArchiveStatus: up to two statements, not in a transaction.
\*   first  (failed with message): UPDATE SET retry_count = retry_count + 1
\*          (completed)          : UPDATE SET error_message = NULL
\*   last   : UPDATE SET status [, error_message, last_retry_at]
UpdateArchiveStatus(db, id, status, errorMessage, t, fault) ==
  LET tbl == db.archived_content
      exists == id \in 1..Len(tbl)
      wrapped == <<"Failed to update archive status for record ", ToString(id)>>
      counted == CountsAsFailure(status, errorMessage)
      hasFirst == counted \/ status = "completed"
      afterFirst ==
        IF ~exists THEN db
        ELSE IF counted
          THEN [db EXCEPT !.archived_content[id].retry_count = @ + 1]
        ELSE IF status = "completed"
          THEN [db EXCEPT !.archived_content[id].error_message = NullMsg]
        ELSE db
      afterLast ==
        IF counted
          THEN [afterFirst EXCEPT
                  !.archived_content[id].status = status,
                  !.archived_content[id].error_message = errorMessage,
                  !.archived_content[id].last_retry_at = t]
          ELSE [afterFirst EXCEPT !.archived_content[id].status = status]
  IN  IF fault = "s1" /\ hasFirst THEN Thrown(db, wrapped)
      ELSE IF fault # "none" THEN Thrown(afterFirst, wrapped)
      ELSE IF ~exists
        THEN Thrown(db, <<"Archived content record ", ToString(id), " not found">>)
      ELSE Ok(afterLast)

(***************************************************************************)
(* getFailedArchives: SELECT * WHERE status = 'failed' AND retry_count <    *)
(* maxRetries AND (last_retry_at IS NULL OR last_retry_at < now - delay)    *)
(* ORDER BY last_retry_at ASC LIMIT min(limit, 200).  PostgreSQL sorts NULL *)
(* last in ascending order and leaves the order of equal keys open, so the  *)
(* operator is the set of row sequences the statement can return.           *)
(***************************************************************************)
RetryEligibleOff(r, t) ==
  /\ r.status = "failed"
  /\ r.retry_count <= maxRetries
  /\ (r.last_retry_at = NoTime \/ r.last_retry_at < t - retryDelayMinutes)

RetryEligible(r, t) ==
  /\ r.status = "failed"
  /\ r.retry_count < maxRetries
  /\ (r.last_retry_at = NoTime \/ r.last_retry_at < t - retryDelayMinutes)

\* a sorts strictly before b under ORDER BY last_retry_at ASC.
SortsBefore(a, b) ==
  /\ a.last_retry_at # NoTime
  /\ (b.last_retry_at = NoTime \/ a.last_retry_at < b.last_retry_at)

QueryCap(limit) == Min(limit, maxQueryLimit)

GetFailedArchives(tbl, t, limit) ==
  LET eligible == {i \in 1..Len(tbl) : RetryEligible(tbl[i], t)}
      n == Min(QueryCap(limit), Cardinality(eligible))
  IN  { [k \in 1..n |-> tbl[p[k]]] :
          p \in { q \in [1..n -> eligible] :
                    /\ \A j, k \in 1..n : j # k => q[j] # q[k]
                    /\ \A j, k \in 1..n :
                         j < k => ~SortsBefore(tbl[q[k]], tbl[q[j]])
                    /\ \A i \in eligible :
                         (\A k \in 1..n : q[k] # i) =>
                           \A k \in 1..n : ~SortsBefore(tbl[i], tbl[q[k]]) } }

\* No processBatch call and no retryFailedArchives call has been made.
IdleBatch == [pc |-> "idle", i |-> 0, results |-> <<>>]
\* The retryFailedArchives calls that may be running at the same time.
Runners == {"A", "B"}
IdleRunner ==
  [pc |-> "idle", queue |-> <<>>, idx |-> 0, successful |-> 0,
   stillFailed |-> 0, content |-> "", hash |-> <<>>, caught |-> <<>>,
   log |-> <<>>]
NoRunners == [r \in Runners |-> IdleRunner]

\* The GainForestArchiver object after initialize(): no entry point called,
\* isShuttingDown false, processingPromises empty, shutdown() not called.
AppCalls == {"processAll", "processSpecific", "retryFailed"}
BatchCalls == {"processAll", "processSpecific"}
IdleApp ==
  [isInitialized |-> TRUE, init |-> "done", ipfsHealthy |-> TRUE,
   dbInitialized |-> TRUE, requested |-> <<>>,
   isShuttingDown |-> FALSE, processingPromises |-> {},
   call |-> [c \in AppCalls |-> [pc |-> "idle", afterShutdown |-> FALSE]],
   sd |-> "idle", awaited |-> {}, timer |-> "unset", shutdowns |-> 0,
   cleanupCalled |-> FALSE, destroyCalled |-> FALSE]
\* No downloadContent, no upload and no uploadBatch call has been made.
IdleDownloadBatch == [pc |-> "idle", i |-> 0, results |-> <<>>]
NoDownloads == [downloads |-> <<>>, batch |-> IdleDownloadBatch]
IdleUploadBatch ==
  [pc |-> "idle", i |-> 0, results |-> <<>>, errors |-> <<>>,
   returned |-> <<>>]
NoUploads == [uploads |-> <<>>, batch |-> IdleUploadBatch]

NothingRunning ==
  /\ ids = <<>>
  /\ batch = IdleBatch
  /\ task = <<>>
  /\ runner = NoRunners
  /\ app = IdleApp
  /\ dl = NoDownloads
  /\ up = NoUploads

NoQuery == [called |-> FALSE, limit |-> 0, at |-> 0, rows |-> <<>>]
\* The last call of the store API: its operation, the key of the row it
\* addressed, and how it ended.
NoCall ==
  [op |-> "none", arg |-> "", ok |-> TRUE, fault |-> "none", msg |-> <<>>]

Faults == {"none", "s1", "s2", "s3"}
FaultAllowed(fault) == fault = "none" \/ faults < MaxFaults
CountFault(fault) == faults' = IF fault = "none" THEN faults ELSE faults + 1

SetStore(db) ==
  /\ ecocerts' = db.ecocerts
  /\ attestations' = db.attestations
  /\ archived_content' = db.archived_content

Tick ==
  /\ now < MaxNow
  /\ now' = now + 1
  /\ UNCHANGED <<storeVars, faults, lastQuery, lastCall, pipeVars, runner, app, dl, up>>

(***************************************************************************)
(* SpecQuery: getFailedArchives over every small archived_content table.    *)
(* Every combination of status, retry_count and last_retry_at drawn here is *)
(* a row the store API can produce (insertArchivedContent takes any status; *)
(* updateArchiveStatus bumps retry_count and stamps last_retry_at in two    *)
(* separate statements).                                                    *)
(***************************************************************************)
QueryLimits == {1, 2, maxQueryLimit + 50}

QueryRowShapes ==
  [status : {"failed", "completed"},
   retry_count : {0, maxRetries - 1, maxRetries},
   last_retry_at : {NoTime, 0, 1}]

QueryRow(i, shape) ==
  [id |-> i, ecocert_id |-> "e1", attestation_uid |-> "att_001",
   original_url |-> "u1",
   ipfs_hash |-> <<"Qm", ToString(i)>>,
   ipfs_url |-> <<"gateway", "/ipfs/", "Qm", ToString(i)>>,
   status |-> shape.status,
   error_message |-> IF shape.status = "failed" THEN <<"Download failed">> ELSE NullMsg,
   retry_count |-> shape.retry_count,
   last_retry_at |-> shape.last_retry_at]

InitQuery ==
  /\ \E n \in 0..QueryRows : \E shapes \in [1..n -> QueryRowShapes] :
        /\ archived_content = [i \in 1..n |-> QueryRow(i, shapes[i])]
        /\ ecocerts = [e \in EcocertIds |->
                         IF e = "e1"
                           THEN [present |-> TRUE, title |-> SeedTitle,
                                 created_at |-> 0,
                                 processed_at |-> NoTime,
                                 attestation_count |-> 1,
                                 archived_content_count |-> n]
                           ELSE EmptyEcocert]
  /\ attestations = [u \in Uids |-> IF u = "att_001" THEN "e1" ELSE NoRow]
  /\ now = retryDelayMinutes
  /\ faults = 0
  /\ lastQuery = NoQuery
  /\ lastCall = NoCall
  /\ NothingRunning

GetFailedArchivesCall(limit) ==
  /\ \E rows \in GetFailedArchives(archived_content, now, limit) :
        lastQuery' = [called |-> TRUE, limit |-> limit, at |-> now,
                      rows |-> rows]
  /\ UNCHANGED <<storeVars, now, faults, lastCall, pipeVars, runner, app, dl, up>>

NextQuery ==
  \/ \E limit \in QueryLimits : GetFailedArchivesCall(limit)
  \/ Tick

SpecQuery == InitQuery /\ [][NextQuery]_vars

InitStore ==
  /\ ecocerts = EmptyDB.ecocerts
  /\ attestations = EmptyDB.attestations
  /\ archived_content = EmptyDB.archived_content
  /\ now = 0
  /\ faults = 0
  /\ lastQuery = NoQuery
  /\ lastCall = NoCall
  /\ NothingRunning

StoreInsertEcocert(e, title, fault) ==
  /\ FaultAllowed(fault)
  /\ LET r == EnsureInitialized(DB,
                (InsertEcocert(DB, e, title, now, fault))) IN
       /\ SetStore(r.db)
       /\ lastCall' = [op |-> "insertEcocert", arg |-> e, ok |-> r.ok, fault |-> fault,
                       msg |-> r.msg]
  /\ CountFault(fault)
  /\ UNCHANGED <<now, lastQuery, pipeVars, runner, app, dl, up>>

StoreInsertAttestation(uid, e, fault) ==
  /\ FaultAllowed(fault)
  /\ ecocerts[e].attestation_count < MaxCount
  /\ LET r == EnsureInitialized(DB,
                (InsertAttestation(DB, uid, e, fault))) IN
       /\ SetStore(r.db)
       /\ lastCall' = [op |-> "insertAttestation", arg |-> e, ok |-> r.ok,
                       fault |-> fault, msg |-> r.msg]
  /\ CountFault(fault)
  /\ UNCHANGED <<now, lastQuery, pipeVars, runner, app, dl, up>>

StoreIds == {"e1", "e2"}
StoreUids == {"att_001", "att_002"}

StoreContents ==
  [ecocert_id : StoreIds, attestation_uid : {"att_001"},
   original_url : {"u1"}, ipfs_hash : {<<>>, <<"Qm", "c1">>},
   ipfs_url : {<<>>}, status : {"", "failed"}]

StoreInsertArchivedContent(content, fault) ==
  /\ FaultAllowed(fault)
  /\ Len(archived_content) < MaxRecords
  /\ LET r == EnsureInitialized(DB,
                (InsertArchivedContent(DB, content, fault))) IN
       /\ SetStore(r.db)
       /\ lastCall' = [op |-> "insertArchivedContent",
                       arg |-> content.ecocert_id, ok |-> r.ok,
                       fault |-> fault, msg |-> r.msg]
  /\ CountFault(fault)
  /\ UNCHANGED <<now, lastQuery, pipeVars, runner, app, dl, up>>

NextStore ==
  \/ \E e \in StoreIds, fault \in {"none", "s1"} :
       StoreInsertEcocert(e, TitleOf(e), fault)
  \/ \E uid \in StoreUids, e \in StoreIds, fault \in Faults :
       StoreInsertAttestation(uid, e, fault)
  \/ \E content \in StoreContents, fault \in {"none", "s1", "s2"} :
       StoreInsertArchivedContent(content, fault)

SpecStore == InitStore /\ [][NextStore]_vars

AttestationRows(e) == {u \in Uids : attestations[u] = e}
ArchiveRows(e) ==
  {i \in 1..Len(archived_content) : archived_content[i].ecocert_id = e}

(***************************************************************************)
(* C8: in every observable state the identifier's attestationCount equals   *)
(* the number of attestation rows that belong to it, also after repeated    *)
(* inserts of a stored uid.                                                 *)
(***************************************************************************)
C8_AttestationCountInSync ==
  \A e \in EcocertIds :
    ecocerts[e].attestation_count = Cardinality(AttestationRows(e))

(***************************************************************************)
(* C9: in every observable state the identifier's archivedContentCount     *)
(* equals the number of archive records that belong to it, also when an     *)
(* insert fails and is rolled back.                                         *)
(***************************************************************************)
C9_ArchivedCountInSync ==
  \A e \in EcocertIds :
    ecocerts[e].archived_content_count = Cardinality(ArchiveRows(e))

\* A record exists and a later insert failed at its counter statement, after
\* its INSERT statement, and was rolled back.
C9_Witness ==
  /\ \E e \in EcocertIds : Cardinality(ArchiveRows(e)) >= 1
  /\ lastCall.op = "insertArchivedContent"
  /\ ~lastCall.ok /\ lastCall.fault = "s2"

(***************************************************************************)
(* The archiving pipeline: processBatch, processEcocert and processUrl.     *)
(* task[k] is the processEcocert call for ids[k]; every await of the code   *)
(* is one action, so calls of one chunk interleave at their awaits.         *)
(***************************************************************************)
\* parseEcocertId accepts exactly the well-formed ids.
WellFormed(id) == id \in EcocertIds

\* new URL(src) for the source texts of the model: u1, u2 and u3 stand for
\* the https urls of MOCK_ATTESTATIONS; the parser lower-cases the scheme
\* and throws a TypeError for a text without one.
NewURL(src) ==
  CASE src \in {"u1", "u2", "u3", "HTTPS://Example.com/c"} ->
         [parses |-> TRUE, protocol |-> "https:"]
    [] src = "http://example.com/b" -> [parses |-> TRUE, protocol |-> "http:"]
    [] src = "ftp://example.com/file.txt" ->
         [parses |-> TRUE, protocol |-> "ftp:"]
    [] src = "ipfs://QmHash123" -> [parses |-> TRUE, protocol |-> "ipfs:"]
    [] OTHER -> [parses |-> FALSE, protocol |-> ""]

\* isValidUrl: the text parses and its protocol is http: or https:.
IsValidUrl(src) ==
  LET urlObj == NewURL(src) IN
    urlObj.parses /\ urlObj.protocol \in {"http:", "https:"}

UrlSource(src) == [type |-> "url", src |-> src]

\* MOCK_ATTESTATIONS[id] || []: each attestation with its sources.
MockAttestations(id) ==
  CASE id = "e1" -> <<[uid |-> "att_001",
                       sources |-> <<UrlSource("u1"), UrlSource("u2")>>]>>
    [] id = "e2" -> <<[uid |-> "att_002", sources |-> <<UrlSource("u3")>>]>>
    [] OTHER -> <<>>

\* The condition without its test of the source's type.
ExtractedAnyType(source) == IsValidUrl(source.src)
\* The condition under which a source's src is added.
Extracted(source) == source.type = "url" /\ IsValidUrl(source.src)

RECURSIVE AddAll(_, _)
\* The inner loop: urls.add(source.src) for the sources that pass (Set.add
\* keeps the first occurrence and insertion order).
AddAll(acc, sources) ==
  IF sources = <<>> THEN acc
  ELSE AddAll(IF /\ Extracted(Head(sources))
                 /\ \A i \in 1..Len(acc) : acc[i] # Head(sources).src
                THEN Append(acc, Head(sources).src) ELSE acc,
              Tail(sources))

RECURSIVE ExtractExternalUrlsFrom(_, _)
ExtractExternalUrlsFrom(acc, atts) ==
  IF atts = <<>> THEN acc
  ELSE ExtractExternalUrlsFrom(AddAll(acc, Head(atts).sources), Tail(atts))

ExtractExternalUrls(atts) == ExtractExternalUrlsFrom(<<>>, atts)

\* The upload result: the content identifier is a function of the bytes, the
\* gateway url a function of the identifier.
IpfsHash(content) == <<"Qm", content>>
IpfsUrl(hash) == <<"gateway", "/ipfs/">> \o hash

IdleTask ==
  [pc |-> "notStarted", attIdx |-> 0, urlIdx |-> 0, errors |-> <<>>,
   attestationsFound |-> 0, urlsExtracted |-> 0, successfullyArchived |-> 0,
   archiveId |-> 0, caught |-> <<>>, content |-> "", hash |-> <<>>,
   status |-> "", thrown |-> <<>>, runs |-> <<>>]

\* The outer catch of processEcocert; thrown keeps the message it caught.
OuterCatchDropsMessage(t, msg) ==
  [t EXCEPT !.pc = "returned", !.status = "failed", !.thrown = msg]
OuterCatch(t, msg) ==
  [t EXCEPT !.pc = "returned", !.status = "failed", !.thrown = msg,
            !.errors = Append(@, <<"Processing failed: ">> \o msg)]

\* The synchronous head of processEcocert, up to its first await.
StartTask(id) ==
  IF WellFormed(id)
    THEN [IdleTask EXCEPT !.pc = "insertEcocert"]
    ELSE OuterCatch(IdleTask, <<"Invalid ecocert ID format: ", id>>)

\* ids.slice(i, i + maxConcurrent), as positions.
Chunk(i) == {k \in 1..Len(ids) : i < k /\ k <= i + maxConcurrent}

\* Promise.all over the calls of a chunk resolves when each has returned.
ChunkSettledAny(tasks, chunk) == \E k \in chunk : tasks[k].pc = "returned"
ChunkSettled(tasks, chunk) == \A k \in chunk : tasks[k].pc = "returned"

RECURSIVE ResultsOfReversed(_, _, _)
ResultsOfReversed(tasks, from, to) ==
  IF from > to THEN <<>>
  ELSE ResultsOfReversed(tasks, from + 1, to) \o
       <<[ecocertId |-> ids[from],
          status |-> tasks[from].status,
          attestationsFound |-> tasks[from].attestationsFound,
          urlsExtracted |-> tasks[from].urlsExtracted,
          successfullyArchived |-> tasks[from].successfullyArchived,
          errors |-> tasks[from].errors]>>

RECURSIVE ResultsOf(_, _, _)
\* The results of the calls at positions from..to, in position order, as
\* Promise.all yields them.
ResultsOf(tasks, from, to) ==
  IF from > to THEN <<>>
  ELSE <<[ecocertId |-> ids[from],
          status |-> tasks[from].status,
          attestationsFound |-> tasks[from].attestationsFound,
          urlsExtracted |-> tasks[from].urlsExtracted,
          successfullyArchived |-> tasks[from].successfullyArchived,
          errors |-> tasks[from].errors]>> \o ResultsOf(tasks, from + 1, to)

StartChunk(tasks, i) ==
  [k \in 1..Len(ids) |->
     IF k \in Chunk(i) THEN StartTask(ids[k]) ELSE tasks[k]]

\* processBatch is called: the first chunk's calls are started.
ProcessBatch ==
  /\ batch.pc = "idle"
  /\ batch' = [batch EXCEPT !.pc = "running"]
  /\ task' = StartChunk(task, 0)
  /\ UNCHANGED <<storeVars, now, faults, lastQuery, lastCall, ids, runner, app, dl, up>>

\* await Promise.all returns: results.push(...batchResults), i += maxConcurrent
\* and either the next chunk is started or the loop ends.
NextChunk ==
  /\ batch.pc = "running"
  /\ ChunkSettled(task, Chunk(batch.i))
  /\ LET next == batch.i + maxConcurrent
         results == batch.results \o
                    ResultsOf(task, batch.i + 1, Min(next, Len(ids)))
     IN  IF next < Len(ids)
           THEN /\ batch' = [batch EXCEPT !.i = next, !.results = results]
                /\ task' = StartChunk(task, next)
           ELSE /\ batch' = [pc |-> "done", i |-> next, results |-> results]
                /\ UNCHANGED task
  /\ UNCHANGED <<storeVars, now, faults, lastQuery, lastCall, ids, runner, app, dl, up>>

Running(k) == batch.pc = "running" /\ k \in Chunk(batch.i)

\* await insertEcocert(...)
T_InsertEcocert(k, fault) ==
  /\ Running(k) /\ task[k].pc = "insertEcocert"
  /\ FaultAllowed(fault) /\ CountFault(fault)
  /\ LET r == InsertEcocert(DB, ids[k], TitleOf(ids[k]), now, fault) IN
       /\ SetStore(r.db)
       /\ task' = [task EXCEPT ![k] =
            IF r.ok THEN [@ EXCEPT !.pc = "fetchAttestations"]
            ELSE OuterCatch(@, r.msg)]
  /\ UNCHANGED <<now, lastQuery, lastCall, ids, batch, runner, app, dl, up>>

\* await fetchAttestations(ecocertId); the id has parsed already, so the
\* mock lookup cannot throw.
T_FetchAttestations(k) ==
  /\ Running(k) /\ task[k].pc = "fetchAttestations"
  /\ LET n == Len(MockAttestations(ids[k])) IN
       task' = [task EXCEPT ![k] =
         [@ EXCEPT !.attestationsFound = n,
                   !.pc = IF n = 0 THEN "markProcessed" ELSE "insertAttestation",
                   !.attIdx = IF n = 0 THEN 0 ELSE 1]]
  /\ UNCHANGED <<storeVars, now, faults, lastQuery, lastCall, ids, batch, runner, app, dl, up>>

\* The position after the attestation loop: urls are extracted, and either
\* the url loop starts or the no-urls branch marks the ecocert processed.
AfterAttestations(t, id) ==
  LET urls == ExtractExternalUrls(MockAttestations(id)) IN
    [t EXCEPT !.urlsExtracted = Len(urls),
              !.urlIdx = IF Len(urls) = 0 THEN 0 ELSE 1,
              !.pc = IF Len(urls) = 0 THEN "markProcessed" ELSE "urlInsert"]

\* The catch around insertAttestation: the failure is pushed to errors and
\* the loop goes on.
AttestationCatchSilent(t, uid, msg) == t
AttestationCatch(t, uid, msg) ==
  [t EXCEPT !.errors = Append(@, <<"Failed to store attestation ", uid, ": ">>
                                    \o msg)]

\* await insertAttestation(...) inside the per-attestation try/catch.
T_InsertAttestation(k, fault) ==
  /\ Running(k) /\ task[k].pc = "insertAttestation"
  /\ FaultAllowed(fault) /\ CountFault(fault)
  /\ LET atts == MockAttestations(ids[k])
         att == atts[task[k].attIdx]
         r == InsertAttestation(DB, att.uid, ids[k], fault)
         noted == IF r.ok THEN task[k]
                  ELSE AttestationCatch(task[k], att.uid, r.msg)
     IN  /\ SetStore(r.db)
         /\ task' = [task EXCEPT ![k] =
              IF task[k].attIdx < Len(atts)
                THEN [noted EXCEPT !.attIdx = @ + 1]
                ELSE AfterAttestations(noted, ids[k])]
  /\ UNCHANGED <<now, lastQuery, lastCall, ids, batch, runner, app, dl, up>>

\* The status processEcocert returns after the url loop.
ResultStatus(errors, successfullyArchived) ==
  IF Len(errors) = 0 THEN "completed"
  ELSE IF successfullyArchived > 0 THEN "completed" ELSE "failed"

\* The early returns of processEcocert: nothing to archive, status
\* 'completed' and the one message that says why.
EarlyReturnFailed(t, msg) ==
  [t EXCEPT !.pc = "returned", !.status = "failed", !.errors = <<msg>>]
EarlyReturn(t, msg) ==
  [t EXCEPT !.pc = "returned", !.status = "completed", !.errors = <<msg>>]

\* await markEcocertProcessed(ecocertId) at its three call sites, and the
\* return that follows each.
T_MarkProcessed(k, fault) ==
  /\ Running(k) /\ task[k].pc = "markProcessed"
  /\ FaultAllowed(fault) /\ CountFault(fault)
  /\ LET t == task[k]
         r == MarkEcocertProcessed(DB, ids[k], now, fault)
     IN  /\ SetStore(r.db)
         /\ task' = [task EXCEPT ![k] =
              IF ~r.ok THEN OuterCatch(t, r.msg)
              ELSE IF t.attestationsFound = 0
                THEN EarlyReturn(t, <<"No attestations found">>)
              ELSE IF t.urlsExtracted = 0
                THEN EarlyReturn(t, <<"No URLs found in attestations">>)
              ELSE [t EXCEPT !.pc = "returned",
                             !.status = ResultStatus(t.errors,
                                                     t.successfullyArchived)]]
  /\ UNCHANGED <<now, lastQuery, lastCall, ids, batch, runner, app, dl, up>>

\* executeRaw of the UPDATE that completes a record: SET status =
\* 'completed', ipfs_hash, ipfs_url [, error_message = NULL] WHERE id.  A
\* failing statement, a UNIQUE (ipfs_hash) violation included, is rethrown
\* as 'Raw SQL execution failed'.
ExecuteRawComplete(db, id, hash, url, clearError, fault) ==
  IF fault # "none" \/ (id \in 1..Len(db.archived_content)
                        /\ HashTaken(db.archived_content, hash, id))
    THEN Thrown(db, <<"Raw SQL execution failed">>)
  ELSE IF id \notin 1..Len(db.archived_content) THEN Ok(db)
  ELSE Ok([db EXCEPT
             !.archived_content[id].status = "completed",
             !.archived_content[id].ipfs_hash = hash,
             !.archived_content[id].ipfs_url = url,
             !.archived_content[id].error_message =
               IF clearError THEN NullMsg ELSE @])

\* What downloadContent(url) can do: resolve with the bytes, or reject with
\* a ContentError.
DownloadErrorCodes == {"DOWNLOAD_FAILED", "CONTENT_TOO_LARGE"}
DownloadOutcomes ==
  [ok : {TRUE}, content : Contents, code : {""}]
    \cup [ok : {FALSE}, content : {""}, code : DownloadErrorCodes]
DownloadError(url) == <<"Failed to download content from ", url>>
SizeError == <<"Content-Length ", "n", " exceeds maximum ", "maxFileSize">>
\* The message of the ContentError with the given code.
DownloadMessage(code, url) ==
  IF code = "CONTENT_TOO_LARGE" THEN SizeError ELSE DownloadError(url)
UploadError == <<"Failed to upload ", "file", " to IPFS">>

UrlsOf(k) == ExtractExternalUrls(MockAttestations(ids[k]))
UrlOf(k) == UrlsOf(k)[task[k].urlIdx]

\* processUrl has returned or thrown: the per-url try/catch of processEcocert
\* counts the success or pushes the error, and the loop moves on.
EndRun(t, urls, ok, thrown, recorded) ==
  LET url == urls[t.urlIdx]
      run == [url |-> url, archiveId |-> t.archiveId, content |-> t.content,
              hash |-> t.hash, caught |-> t.caught, recorded |-> recorded,
              ok |-> ok]
  IN  [t EXCEPT
         !.runs = Append(@, run),
         !.successfullyArchived = IF ok THEN @ + 1 ELSE @,
         !.errors = IF ok THEN @
                    ELSE Append(@, <<"Failed to process URL ", url, ": ">>
                                     \o thrown),
         !.archiveId = 0, !.caught = <<>>, !.content = "", !.hash = <<>>,
         !.urlIdx = IF t.urlIdx < Len(urls) THEN @ + 1 ELSE @,
         !.pc = IF t.urlIdx < Len(urls) THEN "urlInsert" ELSE "markProcessed"]

\* The try block of processUrl threw: control is in its catch.
CaughtGoesOn(t, msg) == [t EXCEPT !.caught = msg, !.pc = "urlUpload"]
Caught(t, msg) == [t EXCEPT !.caught = msg, !.pc = "urlFail"]

\* await insertArchivedContent({..., ipfs_hash: '', status: 'pending'}),
\* before the try block of processUrl.
T_UrlInsert(k, fault) ==
  /\ Running(k) /\ task[k].pc = "urlInsert"
  /\ FaultAllowed(fault) /\ CountFault(fault)
  /\ LET content == [ecocert_id |-> ids[k],
                     attestation_uid |-> MockAttestations(ids[k])[1].uid,
                     original_url |-> UrlOf(k),
                     ipfs_hash |-> <<>>, ipfs_url |-> <<>>,
                     status |-> "pending"]
         r == InsertArchivedContent(DB, content, fault)
     IN  /\ SetStore(r.db)
         /\ task' = [task EXCEPT ![k] =
              IF r.ok THEN [@ EXCEPT !.archiveId = r.id, !.pc = "urlDownloading"]
              ELSE EndRun(@, UrlsOf(k), FALSE, r.msg, FALSE)]
  /\ UNCHANGED <<now, lastQuery, lastCall, ids, batch, runner, app, dl, up>>

\* await updateArchiveStatus(archiveId, 'downloading' | 'uploading')
T_UrlStatus(k, status, fault) ==
  /\ Running(k)
  /\ task[k].pc = IF status = "downloading" THEN "urlDownloading"
                  ELSE "urlUploading"
  /\ FaultAllowed(fault) /\ CountFault(fault)
  /\ LET r == UpdateArchiveStatus(DB, task[k].archiveId, status, NullMsg,
                                  now, fault)
     IN  /\ SetStore(r.db)
         /\ task' = [task EXCEPT ![k] =
              IF r.ok THEN [@ EXCEPT !.pc = IF status = "downloading"
                                            THEN "urlDownload" ELSE "urlUpload"]
              ELSE Caught(@, r.msg)]
  /\ UNCHANGED <<now, lastQuery, lastCall, ids, batch, runner, app, dl, up>>

\* await contentDownloader.downloadContent(url)
T_UrlDownload(k, outcome) ==
  /\ Running(k) /\ task[k].pc = "urlDownload"
  /\ task' = [task EXCEPT ![k] =
       IF outcome.ok
         THEN [@ EXCEPT !.content = outcome.content, !.pc = "urlUploading"]
         ELSE Caught(@, DownloadMessage(outcome.code, UrlOf(k)))]
  /\ UNCHANGED <<storeVars, now, faults, lastQuery, lastCall, ids, batch, runner, app, dl, up>>

\* await ipfsService.upload(content, filename, metadata)
T_UrlUpload(k, ok) ==
  /\ Running(k) /\ task[k].pc = "urlUpload"
  /\ task' = [task EXCEPT ![k] =
       IF ok THEN [@ EXCEPT !.hash = IpfsHash(task[k].content),
                            !.pc = "urlPersist"]
       ELSE Caught(@, UploadError)]
  /\ UNCHANGED <<storeVars, now, faults, lastQuery, lastCall, ids, batch, runner, app, dl, up>>

\* await executeRaw(UPDATE archived_content SET status = 'completed', ...)
T_UrlPersist(k, fault) ==
  /\ Running(k) /\ task[k].pc = "urlPersist"
  /\ FaultAllowed(fault) /\ CountFault(fault)
  /\ LET t == task[k]
         r == ExecuteRawComplete(DB, t.archiveId, t.hash, IpfsUrl(t.hash),
                                 FALSE, fault)
     IN  /\ SetStore(r.db)
         /\ task' = [task EXCEPT ![k] =
              IF r.ok THEN EndRun(t, UrlsOf(k), TRUE, <<>>, FALSE)
              ELSE Caught(t, r.msg)]
  /\ UNCHANGED <<now, lastQuery, lastCall, ids, batch, runner, app, dl, up>>

\* The catch of processUrl: await updateArchiveStatus(archiveId, 'failed',
\* error.message), then rethrow; if the update itself throws, its error is
\* the one that leaves processUrl.
T_UrlFail(k, fault) ==
  /\ Running(k) /\ task[k].pc = "urlFail"
  /\ FaultAllowed(fault) /\ CountFault(fault)
  /\ LET t == task[k]
         r == UpdateArchiveStatus(DB, t.archiveId, "failed", t.caught, now,
                                  fault)
     IN  /\ SetStore(r.db)
         /\ task' = [task EXCEPT ![k] =
              EndRun(t, UrlsOf(k), FALSE,
                     IF r.ok THEN t.caught ELSE r.msg, r.ok)]
  /\ UNCHANGED <<now, lastQuery, lastCall, ids, batch, runner, app, dl, up>>

(***************************************************************************)
(* Spec: one processBatch call over a list of ecocert ids.                  *)
(***************************************************************************)
MaxIds == 3

RECURSIVE Lists(_)
\* The lists of at most n distinct ids.
Lists(n) ==
  IF n = 0 THEN {<<>>}
  ELSE LET shorter == Lists(n - 1) IN
         shorter \cup
           {Append(l, id) : l \in {s \in shorter : Len(s) = n - 1},
                            id \in InputIds} 

BatchInputs ==
  {l \in Lists(MaxIds) : l # <<>> /\ \A i, j \in 1..Len(l) : i # j => l[i] # l[j]}

\* The store before the call: e3, the ecocert without attestations, was
\* processed once before, which left its row stamped and nothing else.
PriorRunAt == 0
PriorRunStore ==
  [EmptyDB EXCEPT !.ecocerts["e3"] =
     [present |-> TRUE, title |-> TitleOf("e3"), created_at |-> PriorRunAt,
      processed_at |-> PriorRunAt,
      attestation_count |-> 0, archived_content_count |-> 0]]

Init ==
  /\ ecocerts = PriorRunStore.ecocerts
  /\ attestations = EmptyDB.attestations
  /\ archived_content = <<>>
  /\ now = PriorRunAt + 1
  /\ faults = 0
  /\ lastQuery = NoQuery
  /\ lastCall = NoCall
  /\ ids \in BatchInputs
  /\ batch = IdleBatch
  /\ task = [k \in 1..Len(ids) |-> IdleTask]
  /\ runner = NoRunners
  /\ app = IdleApp
  /\ dl = NoDownloads
  /\ up = NoUploads

Tasks == 1..Len(ids)

Next ==
  \/ ProcessBatch
  \/ NextChunk
  \/ \E k \in Tasks, fault \in {"none", "s1"} : T_InsertEcocert(k, fault)
  \/ \E k \in Tasks : T_FetchAttestations(k)
  \/ \E k \in Tasks, fault \in {"none", "s1"} : T_InsertAttestation(k, fault)
  \/ \E k \in Tasks, fault \in {"none", "s1"} : T_MarkProcessed(k, fault)
  \/ \E k \in Tasks, fault \in {"none", "s1"} : T_UrlInsert(k, fault)
  \/ \E k \in Tasks, status \in {"downloading", "uploading"},
        fault \in {"none", "s1"} : T_UrlStatus(k, status, fault)
  \/ \E k \in Tasks, outcome \in DownloadOutcomes : T_UrlDownload(k, outcome)
  \/ \E k \in Tasks, ok \in BOOLEAN : T_UrlUpload(k, ok)
  \/ \E k \in Tasks, fault \in {"none", "s1"} : T_UrlPersist(k, fault)
  \/ \E k \in Tasks, fault \in {"none", "s1", "s2"} : T_UrlFail(k, fault)

Spec == Init /\ [][Next]_vars

Returned(k) == task[k].pc = "returned"
InFlight == {k \in Tasks : task[k].pc \notin {"notStarted", "returned"}}
ChunkOf(k) == (k - 1) \div 2
FailedRuns(k) == {i \in 1..Len(task[k].runs) : ~task[k].runs[i].ok}

\* C7: during processBatch at most 2 processEcocert calls are in flight at
\* any moment, and no call of chunk n+1 has been started while a call of
\* chunk n has not returned.
C7_ChunksAreSequential ==
  /\ Cardinality(InFlight) <= 2
  /\ \A j, k \in Tasks :
       (task[k].pc # "notStarted" /\ ChunkOf(j) < ChunkOf(k)) => Returned(j)

\* A call of the second chunk is in flight.
C7_Witness == \E k \in InFlight : ChunkOf(k) = 1

\* C2: every processUrl run that failed after its archive record was created
\* left the record in status failed, with error_message equal to the caught
\* message, retry_count one higher than before the run (0 for the fresh
\* record) and last_retry_at set.
C2_FailedRunIsRecorded ==
  \A k \in Tasks : \A i \in FailedRuns(k) :
    LET run == task[k].runs[i] IN
      run.archiveId > 0 =>
        LET row == archived_content[run.archiveId] IN
          /\ row.status = "failed"
          /\ row.error_message = run.caught
          /\ row.retry_count = 1
          /\ row.last_retry_at # NoTime

\* C3: a record just created is pending with retry_count 0, and, no store
\* statement having failed, every processUrl run whose download and upload
\* both succeeded left its record completed, with no error message and with
\* ipfs_hash and ipfs_url equal to the upload result.
C3_SuccessfulRunCompletes ==
  /\ \A k \in Tasks :
       task[k].pc = "urlDownloading" =>
         /\ archived_content[task[k].archiveId].status = "pending"
         /\ archived_content[task[k].archiveId].retry_count = 0
  /\ faults = 0 =>
       \A k \in Tasks : \A i \in 1..Len(task[k].runs) :
         LET run == task[k].runs[i] IN
           (run.content # "" /\ run.hash # <<>>) =>
             LET row == archived_content[run.archiveId] IN
               /\ row.status = "completed"
               /\ row.error_message = NullMsg
               /\ row.ipfs_hash = run.hash
               /\ row.ipfs_url = IpfsUrl(run.hash)

\* The url loop of a returned call went through every extracted url once, in
\* extraction order, and counted one success or one error for each.
EveryUrlAttemptedOnce(k) ==
  LET t == task[k] IN
    (Returned(k) /\ t.urlsExtracted > 0 /\ Len(t.runs) > 0) =>
      /\ Len(t.runs) = t.urlsExtracted
      /\ \A i \in 1..Len(t.runs) : t.runs[i].url = UrlsOf(k)[i]
      /\ t.successfullyArchived + Cardinality(FailedRuns(k)) = t.urlsExtracted

\* The downloader refused exactly one url of the call and neither it nor the
\* uploader refused any other.
OneFetchRefused(k) ==
  LET runs == task[k].runs IN
    \E i \in 1..Len(runs) :
      /\ runs[i].caught = DownloadError(runs[i].url)
      /\ \A j \in 1..Len(runs) :
           j # i => /\ runs[j].caught # DownloadError(runs[j].url)
                    /\ runs[j].caught # SizeError
                    /\ runs[j].caught # UploadError

\* C5: a processEcocert call attempts every extracted url exactly once in
\* extraction order and counts one success or one error per url; for a call
\* on its own with two urls and no store fault, where the download of one
\* url is refused and nothing else is, the result is completed with
\* successfullyArchived = 1 and exactly one error.
C5_UrlFailuresAreIsolated ==
  \A k \in Tasks :
    /\ EveryUrlAttemptedOnce(k)
    /\ (Returned(k) /\ Len(ids) = 1 /\ faults = 0
        /\ task[k].urlsExtracted = 2 /\ OneFetchRefused(k)) =>
         /\ task[k].status = "completed"
         /\ task[k].successfullyArchived = 1
         /\ Len(task[k].errors) = 1

\* C6: in every result of processEcocert, status failed implies errors are
\* present and successfullyArchived = 0, and successfullyArchived >= 1
\* implies status completed.
C6_StatusMatchesCounts ==
  \A k \in Tasks :
    Returned(k) =>
      /\ task[k].status = "failed" =>
           (task[k].successfullyArchived = 0 /\ Len(task[k].errors) > 0)
      /\ task[k].successfullyArchived >= 1 => task[k].status = "completed"

(***************************************************************************)
(* The retry scheduler: retryFailedArchives and retryArchiveRecord.         *)
(* runner[r] is one retryFailedArchives call; nothing in the code keeps two *)
(* calls (two CLI retry commands, or a command and a programmatic call)     *)
(* from running at the same time, and every await is one action.            *)
(***************************************************************************)
defaultRetryLimit == 50

RECURSIVE GroupByEcocert(_)
\* failedArchives.reduce(...) followed by Object.entries: the rows grouped
\* by ecocert_id, groups in order of first appearance.
GroupByEcocert(rows) ==
  IF rows = <<>> THEN <<>>
  ELSE LET Same(row) == row.ecocert_id = Head(rows).ecocert_id
           Other(row) == row.ecocert_id # Head(rows).ecocert_id
       IN  SelectSeq(rows, Same) \o GroupByEcocert(SelectSeq(rows, Other))

\* What the loop keeps of a selected row: its id (the url is read from the
\* row, which no statement changes) and the retry_count it was selected with.
Selected(rows) ==
  [i \in 1..Len(rows) |-> [id |-> rows[i].id, retry_count |-> rows[i].retry_count]]

Current(r) == runner[r].queue[runner[r].idx]

\* retryArchiveRecord has returned or thrown: the loop of
\* retryFailedArchives counts it and moves on, and returns after the last.
Counted(rn, ok) ==
  [rn EXCEPT
     !.successful = IF ok THEN @ + 1 ELSE @,
     !.stillFailed = IF ok THEN @ ELSE @ + 1,
     !.log = Append(@, [id |-> rn.queue[rn.idx].id, ok |-> ok]),
     !.content = "", !.hash = <<>>, !.caught = <<>>,
     !.idx = IF rn.idx < Len(rn.queue) THEN @ + 1 ELSE @,
     !.pc = IF rn.idx < Len(rn.queue) THEN "recDownloading" ELSE "done"]

\* The try block of retryArchiveRecord threw.
RetryCaught(rn, msg) == [rn EXCEPT !.caught = msg, !.pc = "recFail"]

\* retryFailedArchives(limit) up to the return of getFailedArchives(limit).
R_GetFailedArchives(r, limit, fault) ==
  /\ runner[r].pc = "idle"
  /\ r = "B" => runner["A"].pc # "idle"      \* A names the earlier call
  /\ FaultAllowed(fault) /\ CountFault(fault)
  /\ IF fault # "none"
       THEN runner' = [runner EXCEPT ![r].pc = "threw"]
       ELSE \E rows \in GetFailedArchives(archived_content, now, limit) :
              runner' = [runner EXCEPT ![r] =
                IF rows = <<>> THEN [@ EXCEPT !.pc = "done"]
                ELSE [@ EXCEPT !.queue = Selected(GroupByEcocert(rows)),
                               !.idx = 1, !.pc = "recDownloading"]]
  /\ UNCHANGED <<storeVars, now, lastQuery, lastCall, pipeVars, app, dl, up>>

\* await updateArchiveStatus(archive.id, 'downloading'), before the try block
\* of retryArchiveRecord.
R_Downloading(r, fault) ==
  /\ runner[r].pc = "recDownloading"
  /\ FaultAllowed(fault) /\ CountFault(fault)
  /\ LET res == UpdateArchiveStatus(DB, Current(r).id, "downloading", NullMsg,
                                    now, fault)
     IN  /\ SetStore(res.db)
         /\ runner' = [runner EXCEPT ![r] =
              IF res.ok THEN [@ EXCEPT !.pc = "recDownload"]
              ELSE Counted(@, FALSE)]
  /\ UNCHANGED <<now, lastQuery, lastCall, pipeVars, app, dl, up>>

\* await contentDownloader.downloadContent(archive.original_url)
R_Download(r, outcome) ==
  /\ runner[r].pc = "recDownload"
  /\ runner' = [runner EXCEPT ![r] =
       IF outcome.ok
         THEN [@ EXCEPT !.content = outcome.content, !.pc = "recUploading"]
         ELSE RetryCaught(@, DownloadMessage(outcome.code,
                archived_content[Current(r).id].original_url))]
  /\ UNCHANGED <<storeVars, now, faults, lastQuery, lastCall, pipeVars, app, dl, up>>

\* await updateArchiveStatus(archive.id, 'uploading')
R_Uploading(r, fault) ==
  /\ runner[r].pc = "recUploading"
  /\ FaultAllowed(fault) /\ CountFault(fault)
  /\ LET res == UpdateArchiveStatus(DB, Current(r).id, "uploading", NullMsg,
                                    now, fault)
     IN  /\ SetStore(res.db)
         /\ runner' = [runner EXCEPT ![r] =
              IF res.ok THEN [@ EXCEPT !.pc = "recUpload"]
              ELSE RetryCaught(@, res.msg)]
  /\ UNCHANGED <<now, lastQuery, lastCall, pipeVars, app, dl, up>>

\* await ipfsService.upload(content, filename, metadata)
R_Upload(r, ok) ==
  /\ runner[r].pc = "recUpload"
  /\ runner' = [runner EXCEPT ![r] =
       IF ok THEN [@ EXCEPT !.hash = IpfsHash(runner[r].content),
                            !.pc = "recPersist"]
       ELSE RetryCaught(@, UploadError)]
  /\ UNCHANGED <<storeVars, now, faults, lastQuery, lastCall, pipeVars, app, dl, up>>

\* await executeRaw(UPDATE archived_content SET status = 'completed', ...,
\* error_message = NULL WHERE id)
R_Persist(r, fault) ==
  /\ runner[r].pc = "recPersist"
  /\ FaultAllowed(fault) /\ CountFault(fault)
  /\ LET res == ExecuteRawComplete(DB, Current(r).id, runner[r].hash,
                                   IpfsUrl(runner[r].hash), TRUE, fault)
     IN  /\ SetStore(res.db)
         /\ runner' = [runner EXCEPT ![r] =
              IF res.ok THEN Counted(@, TRUE) ELSE RetryCaught(@, res.msg)]
  /\ UNCHANGED <<now, lastQuery, lastCall, pipeVars, app, dl, up>>

\* The catch of retryArchiveRecord: await updateArchiveStatus(archive.id,
\* 'failed', `Retry failed: ${message}`), then rethrow.
R_Fail(r, fault) ==
  /\ runner[r].pc = "recFail"
  /\ FaultAllowed(fault) /\ CountFault(fault)
  /\ LET res == UpdateArchiveStatus(DB, Current(r).id, "failed",
                                    <<"Retry failed: ">> \o runner[r].caught,
                                    now, fault)
     IN  /\ SetStore(res.db)
         /\ runner' = [runner EXCEPT ![r] = Counted(@, FALSE)]
  /\ UNCHANGED <<now, lastQuery, lastCall, pipeVars, app, dl, up>>

(***************************************************************************)
(* SpecRetry: up to two retryFailedArchives calls over a store that holds   *)
(* failed records.  The records are the ones the store API yields, as the   *)
(* integration tests set them up: insertArchivedContent with status         *)
(* 'failed' and an ipfs_hash of its own, then updateArchiveStatus(id,       *)
(* 'failed', message) once per earlier failed attempt.  The cooldown of     *)
(* every record has elapsed.                                                *)
(***************************************************************************)
RetryLimits == {1, defaultRetryLimit}

\* Records alternate between the two ecocerts; each has failed never, or
\* maxRetries - 1 times before with the given download error.
RetryRowShapes ==
  {[retry_count |-> 0, code |-> ""],
   [retry_count |-> maxRetries - 1, code |-> "DOWNLOAD_FAILED"],
   [retry_count |-> maxRetries - 1, code |-> "CONTENT_TOO_LARGE"]}
EcocertOfRow(i) == IF i % 2 = 1 THEN "e1" ELSE "e2"

RetryRow(i, shape) ==
  [id |-> i,
   ecocert_id |-> EcocertOfRow(i),
   attestation_uid |-> MockAttestations(EcocertOfRow(i))[1].uid,
   original_url |-> "u" \o ToString(i),
   ipfs_hash |-> <<"QmPlaceholder", ToString(i)>>,
   ipfs_url |-> <<>>,
   status |-> "failed",
   error_message |-> IF shape.retry_count = 0 THEN NullMsg
                     ELSE DownloadMessage(shape.code, "u" \o ToString(i)),
   retry_count |-> shape.retry_count,
   last_retry_at |-> IF shape.retry_count = 0 THEN NoTime ELSE 0]

InitRetry ==
  /\ \E n \in 1..MaxRecords : \E shapes \in [1..n -> RetryRowShapes] :
       /\ archived_content = [i \in 1..n |-> RetryRow(i, shapes[i])]
       /\ ecocerts = [e \in EcocertIds |->
            IF e \in {"e1", "e2"}
              THEN [present |-> TRUE, title |-> SeedTitle,
                    created_at |-> 0,
                    processed_at |-> 0,
                    attestation_count |-> 1,
                    archived_content_count |->
                      Cardinality({i \in 1..n : EcocertOfRow(i) = e})]
              ELSE EmptyEcocert]
  /\ attestations = [u \in Uids |-> IF u = "att_001" THEN "e1" ELSE "e2"]
  /\ now = retryDelayMinutes + 1
  /\ faults = 0
  /\ lastQuery = NoQuery
  /\ lastCall = NoCall
  /\ ids = <<>>
  /\ batch = IdleBatch
  /\ task = <<>>
  /\ runner = NoRunners
  /\ app = IdleApp
  /\ dl = NoDownloads
  /\ up = NoUploads

NextRetry ==
  \/ \E r \in Runners, limit \in RetryLimits, fault \in {"none", "s1"} :
       R_GetFailedArchives(r, limit, fault)
  \/ \E r \in Runners, fault \in {"none", "s1"} : R_Downloading(r, fault)
  \/ \E r \in Runners, outcome \in DownloadOutcomes : R_Download(r, outcome)
  \/ \E r \in Runners, fault \in {"none", "s1"} : R_Uploading(r, fault)
  \/ \E r \in Runners, ok \in BOOLEAN : R_Upload(r, ok)
  \/ \E r \in Runners, fault \in {"none", "s1"} : R_Persist(r, fault)
  \/ \E r \in Runners, fault \in {"none", "s1", "s2"} : R_Fail(r, fault)

SpecRetry == InitRetry /\ [][NextRetry]_vars

LegalEdges ==
  {<<"pending", "downloading">>, <<"downloading", "uploading">>,
   <<"uploading", "completed">>, <<"pending", "failed">>,
   <<"downloading", "failed">>, <<"uploading", "failed">>,
   <<"failed", "downloading">>}

StatusStep ==
  \A i \in 1..Len(archived_content) :
    /\ i <= Len(archived_content')
    /\ archived_content'[i].status # archived_content[i].status =>
         <<archived_content[i].status, archived_content'[i].status>>
           \in LegalEdges

\* C1: every change of an archive record's status follows one of the edges
\* pending->downloading, downloading->uploading, uploading->completed,
\* {pending, downloading, uploading}->failed or failed->downloading.
C1_StatusEdges == [][StatusStep]_vars

\* C10: a retryFailedArchives call that ran with no other call active has,
\* when it returns, processed the selected records once each in its order,
\* reports attempted = successful + stillFailed, and has left every record
\* it counted successful completed with no error message and every record
\* it counted stillFailed failed with retry_count one higher than selected.
C10_RetryReport ==
  \A r \in Runners :
    (runner[r].pc = "done" /\ \A o \in Runners \ {r} : runner[o].pc = "idle") =>
      LET rn == runner[r] IN
        /\ Len(rn.log) = Len(rn.queue)
        /\ rn.successful + rn.stillFailed = Len(rn.queue)
        /\ rn.successful = Cardinality({i \in 1..Len(rn.log) : rn.log[i].ok})
        /\ \A i \in 1..Len(rn.log) :
             LET row == archived_content[rn.log[i].id] IN
               /\ rn.log[i].id = rn.queue[i].id
               /\ rn.log[i].ok =>
                    (row.status = "completed" /\ row.error_message = NullMsg)
               /\ ~rn.log[i].ok =>
                    /\ row.status = "failed"
                    /\ row.retry_count = rn.queue[i].retry_count + 1

\* The record's stored failure is a size-limit rejection of the downloader.
FailedOnSizeLimit(row) ==
  \/ row.error_message = SizeError
  \/ row.error_message = <<"Retry failed: ">> \o SizeError

\* C11: retryFailedArchives never downloads again a record whose failure was
\* of a non-retryable kind (here: the size-limit rejection CONTENT_TOO_LARGE).
C11_NonRetryableNotRefetched ==
  \A r \in Runners :
    runner[r].pc = "recDownload" =>
      ~FailedOnSizeLimit(archived_content[Current(r).id])

(***************************************************************************)
(* SpecShutdown: the entry points of GainForestArchiver and shutdown().     *)
(* A processBatch promise is pending from the call that created it until    *)
(* the batch returns; the 30 second timer of shutdown() is armed when the   *)
(* wait begins and may fire at any later moment.                            *)
(***************************************************************************)
MaxShutdowns == 2

otherVars == <<ecocerts, attestations, archived_content, now, faults,
               lastQuery, lastCall, ids, batch, task, runner, dl, up>>

\* ensureNotShuttingDown passes.
EnsureNotShuttingDown(a) == ~a.isShuttingDown

\* Promise.all(this.processingPromises) has resolved.
AllSettledAny(a, promises) ==
  \E c \in promises : a.call[c].pc = "returned"
AllSettled(a, promises) ==
  \A c \in promises : a.call[c].pc = "returned"

\* processAllEcocerts(), processSpecificEcocerts(ids) or
\* retryFailedArchives(limit) is called; valid says whether ids holds a
\* well-formed id.
StartCall(c, valid) ==
  /\ app.call[c].pc = "idle"
  /\ app' =
       IF ~app.isInitialized
         THEN [app EXCEPT !.call[c].pc = "rejectedNotInitialized"]
       ELSE IF ~EnsureNotShuttingDown(app)
         THEN [app EXCEPT !.call[c].pc = "rejectedShuttingDown"]
       ELSE IF c = "processSpecific" /\ ~valid
         THEN [app EXCEPT !.call[c].pc = "rejectedNoValidIds"]
       ELSE [app EXCEPT
               !.call[c] = [pc |-> "running",
                            afterShutdown |-> app.isShuttingDown],
               !.processingPromises =
                 IF c \in BatchCalls THEN @ \cup {c} ELSE @]
  /\ UNCHANGED otherVars

\* The awaited processBatch (or the retry loop) returns; the finally block
\* removes the promise.
FinishCall(c) ==
  /\ app.call[c].pc = "running"
  /\ app' = [app EXCEPT !.call[c].pc = "returned",
                        !.processingPromises = @ \ {c}]
  /\ UNCHANGED otherVars

\* shutdown() is called, up to its first await.
Shutdown ==
  /\ app.shutdowns < MaxShutdowns
  /\ app' =
       IF app.isShuttingDown
         THEN [app EXCEPT !.shutdowns = @ + 1]
       ELSE IF app.processingPromises # {}
         THEN [app EXCEPT !.shutdowns = @ + 1, !.isShuttingDown = TRUE,
                          !.awaited = app.processingPromises,
                          !.timer = "armed", !.sd = "waiting"]
       ELSE [app EXCEPT !.shutdowns = @ + 1, !.isShuttingDown = TRUE,
                        !.sd = "cleanup"]
  /\ UNCHANGED otherVars

\* Promise.race is won by Promise.all(processingPromises).
WaitDone ==
  /\ app.sd = "waiting"
  /\ AllSettled(app, app.awaited)
  /\ app' = [app EXCEPT !.sd = "cleanup"]
  /\ UNCHANGED otherVars

\* The 30 second timer fires; if shutdown() is still waiting, the race
\* rejects and the catch goes on to the cleanup.
Timeout ==
  /\ app.timer = "armed"
  /\ app' = [app EXCEPT !.timer = "fired",
                        !.sd = IF @ = "waiting" THEN "cleanup" ELSE @]
  /\ UNCHANGED otherVars

\* await contentDownloader.cleanup(): it logs and swallows its errors.
Cleanup ==
  /\ app.sd = "cleanup"
  /\ app' = [app EXCEPT !.cleanupCalled = TRUE, !.sd = "destroy"]
  /\ UNCHANGED otherVars

\* await databaseService.destroy(); a failure is rethrown by shutdown().
Destroy(ok) ==
  /\ app.sd = "destroy"
  /\ app' = [app EXCEPT !.destroyCalled = TRUE,
                        !.dbInitialized = IF ok THEN FALSE ELSE @,
                        !.sd = IF ok THEN "completed" ELSE "threw"]
  /\ UNCHANGED otherVars

InitShutdown ==
  /\ ecocerts = EmptyDB.ecocerts
  /\ attestations = EmptyDB.attestations
  /\ archived_content = <<>>
  /\ now = 0
  /\ faults = 0
  /\ lastQuery = NoQuery
  /\ lastCall = NoCall
  /\ NothingRunning

DestroyStep == \E ok \in BOOLEAN : Destroy(ok)

NextShutdown ==
  \/ \E c \in AppCalls, valid \in BOOLEAN : StartCall(c, valid)
  \/ \E c \in AppCalls : FinishCall(c)
  \/ Shutdown
  \/ WaitDone
  \/ Timeout
  \/ Cleanup
  \/ DestroyStep

\* The timer set by setTimeout fires, and the event loop resumes a
\* continuation whose awaited promise has settled.
SpecShutdown ==
  /\ InitShutdown /\ [][NextShutdown]_vars
  /\ WF_vars(Timeout) /\ WF_vars(WaitDone) /\ WF_vars(Cleanup)
  /\ WF_vars(DestroyStep)

\* A second shutdown() call changes nothing but the count of calls.
RepeatedShutdownIsNoOp ==
  (app.isShuttingDown /\ app'.shutdowns # app.shutdowns) =>
    app' = [app EXCEPT !.shutdowns = app'.shutdowns]

\* C12: once shutdown() has been called no processAll, processSpecific or
\* retryFailed call starts; cleanup and destroy are called only after every
\* batch that was in flight when shutdown began has returned or the timer
\* has fired, cleanup before destroy; a further shutdown() changes nothing;
\* and every shutdown leads to destroy being called.
C12_GracefulShutdown ==
  /\ [](\A c \in AppCalls : ~app.call[c].afterShutdown)
  /\ [](app.cleanupCalled =>
          \/ \A c \in app.awaited : app.call[c].pc = "returned"
          \/ app.timer = "fired")
  /\ [](app.destroyCalled => app.cleanupCalled)
  /\ [][RepeatedShutdownIsNoOp]_vars
  /\ (app.isShuttingDown ~> app.destroyCalled)

\* shutdown() began with two batches in flight, the timer fired with one of
\* them still running, destroy was called, and a call made during shutdown
\* was rejected.
C12_Witness ==
  /\ app.destroyCalled /\ app.timer = "fired"
  /\ Cardinality(app.awaited) = 2
  /\ \E c \in app.awaited : app.call[c].pc = "running"
  /\ app.call["retryFailed"].pc = "rejectedShuttingDown"

\* The store call a returned processEcocert call was awaiting failed.
StoreCallFailed(k) ==
  /\ task[k].thrown # <<>>
  /\ WellFormed(ids[k])

\* C13: processEcocert always returns a result: for a malformed id, and
\* when insertEcocert or markEcocertProcessed throws, the result has status
\* failed and its errors hold the message of the failure.
C13_NeverRaises ==
  \A k \in Tasks :
    /\ batch.pc = "done" => Returned(k)
    /\ (task[k].pc # "notStarted" /\ ~WellFormed(ids[k])) =>
         /\ Returned(k) /\ task[k].status = "failed"
         /\ task[k].errors = << <<"Processing failed: ",
                                  "Invalid ecocert ID format: ", ids[k]>> >>
    /\ (Returned(k) /\ task[k].thrown # <<>>) =>
         /\ task[k].status = "failed"
         /\ \E i \in 1..Len(task[k].errors) :
              task[k].errors[i] = <<"Processing failed: ">> \o task[k].thrown

\* A call for a well-formed id returned failed after a store call threw,
\* and a call for a malformed id returned failed.
C13_Witness ==
  /\ \E k \in Tasks : Returned(k) /\ StoreCallFailed(k)
                      /\ task[k].attestationsFound > 0
  /\ \E k \in Tasks : Returned(k) /\ ~WellFormed(ids[k])

(***************************************************************************)
(* SpecBatch: one processBatch call over any list of ids, repeated ids      *)
(* included, against a store whose statements do not fail on their own      *)
(* (constraint violations, rejected downloads and uploads still occur).     *)
(* The ids are the ecocert with one url, the one without attestations and   *)
(* the malformed id.                                                        *)
(***************************************************************************)
BatchIds == InputIds \ {"e1"}

InitBatch ==
  /\ ecocerts = EmptyDB.ecocerts
  /\ attestations = EmptyDB.attestations
  /\ archived_content = <<>>
  /\ now = 1
  /\ faults = MaxFaults
  /\ lastQuery = NoQuery
  /\ lastCall = NoCall
  /\ ids \in {l \in Lists(MaxIds) : l # <<>> /\ \A i \in 1..Len(l) : l[i] \in BatchIds}
  /\ batch = IdleBatch
  /\ task = [k \in 1..Len(ids) |-> IdleTask]
  /\ runner = NoRunners
  /\ app = IdleApp
  /\ dl = NoDownloads
  /\ up = NoUploads

SpecBatch == InitBatch /\ [][Next]_vars

\* C14: processBatch returns one result per input id, in input order: while
\* it runs the results so far are those of the chunks already settled, and
\* when it is done result i is the result of the call for ids[i].
C14_OneResultPerId ==
  /\ batch.pc = "running" => Len(batch.results) = batch.i
  /\ batch.pc = "done" => Len(batch.results) = Len(ids)
  /\ \A i \in 1..Len(batch.results) :
       /\ batch.results[i].ecocertId = ids[i]
       /\ batch.results[i].status = task[i].status
       /\ batch.results[i].errors = task[i].errors
       /\ batch.results[i].successfullyArchived = task[i].successfullyArchived

\* A finished batch whose list holds an id twice and the malformed id, and
\* in which a well-formed id failed.
C14_Witness ==
  /\ batch.pc = "done"
  /\ \E i, j \in Tasks : i # j /\ ids[i] = ids[j] /\ WellFormed(ids[i])
  /\ \E k \in Tasks : ids[k] = MalformedId
  /\ \E k \in Tasks : WellFormed(ids[k]) /\ batch.results[k].status = "failed"

\* The call got past insertEcocert and fetchAttestations.
PastFetch(k) ==
  /\ Returned(k)
  /\ WellFormed(ids[k])
  /\ task[k].thrown # <<"Failed to insert ecocert ", ids[k]>>

AttestationNotStored(k) ==
  /\ PastFetch(k)
  /\ \E i \in 1..Len(MockAttestations(ids[k])) :
       attestations[MockAttestations(ids[k])[i].uid] = NoRow

MaxRowTime == 1

RowIds == {"e1", "e2"}
RowTitles == {TitleOf("e1"), <<"Ecocert ", "renamed">>}
RowUids == {"att_001"}
RowContents ==
  [ecocert_id : {"e1"}, attestation_uid : RowUids, original_url : {"u1"},
   ipfs_hash : {<<>>}, ipfs_url : {<<>>}, status : {""}]
RowStatus == ArchiveStatus
RowMessages == {<<>>, <<"Failed to download content from ", "u1">>}

StoreMarkEcocertProcessed(e, fault) ==
  /\ FaultAllowed(fault)
  /\ LET r == EnsureInitialized(DB,
                (MarkEcocertProcessed(DB, e, now, fault))) IN
       /\ SetStore(r.db)
       /\ lastCall' = [op |-> "markEcocertProcessed", arg |-> e, ok |-> r.ok,
                       fault |-> fault, msg |-> r.msg]
  /\ CountFault(fault)
  /\ UNCHANGED <<now, lastQuery, pipeVars, runner, app, dl, up>>

StoreUpdateArchiveStatus(id, status, errorMessage, fault) ==
  /\ FaultAllowed(fault)
  /\ \A i \in 1..Len(archived_content) :
       archived_content[i].retry_count < MaxCount
  /\ LET r == EnsureInitialized(DB,
                (UpdateArchiveStatus(DB, id, status, errorMessage, now, fault))) IN
       /\ SetStore(r.db)
       /\ lastCall' = [op |-> "updateArchiveStatus", arg |-> ToString(id),
                       ok |-> r.ok,
                       fault |-> fault, msg |-> r.msg]
  /\ CountFault(fault)
  /\ UNCHANGED <<now, lastQuery, pipeVars, runner, app, dl, up>>

RowsTick == now < MaxRowTime /\ Tick

\* Only e1 is ever inserted; e2 stays an ecocert the store does not know.
NextUpsert ==
  \/ \E title \in RowTitles, fault \in {"none", "s1"} :
       StoreInsertEcocert("e1", title, fault)
  \/ \E e \in RowIds, fault \in {"none", "s1"} :
       StoreMarkEcocertProcessed(e, fault)
  \/ \E uid \in RowUids, e \in RowIds, fault \in Faults :
       StoreInsertAttestation(uid, e, fault)
  \/ RowsTick

SpecUpsert == InitStore /\ [][NextUpsert]_vars

NextRows ==
  \/ \E fault \in {"none", "s1"} :
       StoreInsertEcocert("e1", TitleOf("e1"), fault)
  \/ \E e \in RowIds, fault \in {"none", "s1"} :
       StoreMarkEcocertProcessed(e, fault)
  \/ \E uid \in RowUids, e \in RowIds, fault \in Faults :
       StoreInsertAttestation(uid, e, fault)
  \/ \E content \in RowContents, fault \in {"none", "s1", "s2"} :
       StoreInsertArchivedContent(content, fault)
  \/ \E id \in 1..MaxRecords, status \in RowStatus,
        errorMessage \in RowMessages, fault \in {"none", "s1", "s2"} :
       StoreUpdateArchiveStatus(id, status, errorMessage, fault)

SpecRows == InitStore /\ [][NextRows]_vars

\* A step that is a call of the store operation op.
StoreStep(op) == lastCall'.op = op /\ now' = now

\* A step of insertEcocert("e1", ..) whose statement was executed.
UpsertStep == StoreStep("insertEcocert") /\ lastCall'.fault = "none"

\* An upsert does not raise, and on an id the store already holds it
\* changes no row.
UpsertKeepsExistingRow ==
  UpsertStep =>
    /\ lastCall'.ok
    /\ ecocerts'["e1"].present
    /\ ecocerts["e1"].present => UNCHANGED storeVars

\* C18: insertEcocert for an id that already exists does not raise and
\* leaves the existing row as it was (title, created_at, processed_at,
\* attestation_count, archived_content_count), whatever title and time the
\* call carries and however the calls of several callers are ordered.
C18_UpsertIsIdempotent == [][UpsertKeepsExistingRow]_vars

\* The last call was an upsert of e1 made after the row had been created at
\* an earlier time, given an attestation and stamped as processed.
C18_Witness ==
  /\ lastCall = [op |-> "insertEcocert", arg |-> "e1", ok |-> TRUE,
                 fault |-> "none", msg |-> <<>>]
  /\ ecocerts["e1"].present
  /\ ecocerts["e1"].created_at = 0
  /\ ecocerts["e1"].processed_at = MaxRowTime
  /\ ecocerts["e1"].attestation_count > 0
  /\ now = MaxRowTime

\* A step of insertAttestation whose parent ecocert is not in the store.
MissingParentStep ==
  /\ StoreStep("insertAttestation")
  /\ ~ecocerts[lastCall'.arg].present

AttestationNeedsParent ==
  MissingParentStep =>
    /\ ~lastCall'.ok
    /\ lastCall'.fault = "none" =>
         lastCall'.msg = <<"Ecocert ", lastCall'.arg, " not found">>
    /\ UNCHANGED storeVars

\* C19: insertAttestation for a parent ecocert that does not exist throws
\* 'Ecocert <id> not found' and changes nothing in the store: no
\* attestation row is inserted and no counter changes; the store is also
\* unchanged when a statement of the call fails instead.
C19_AttestationNeedsParent == [][AttestationNeedsParent]_vars

\* insertAttestation for the unknown ecocert e2 has just been refused, in a
\* store that holds e1 with an attestation and an archive record.
C19_Witness ==
  /\ lastCall = [op |-> "insertAttestation", arg |-> "e2", ok |-> FALSE,
                 fault |-> "none",
                 msg |-> <<"Ecocert ", "e2", " not found">>]
  /\ ecocerts["e1"].attestation_count > 0
  /\ Len(archived_content) > 0
  /\ AttestationRows("e2") = {}

\* A step of updateArchiveStatus for an id no archive record has.
MissingRecordStep ==
  /\ StoreStep("updateArchiveStatus")
  /\ \A i \in 1..Len(archived_content) : ToString(i) # lastCall'.arg

\* A step of markEcocertProcessed for an ecocert the store does not hold.
MissingEcocertStep ==
  /\ StoreStep("markEcocertProcessed")
  /\ ~ecocerts[lastCall'.arg].present

UpdatesNeedTheirRow ==
  /\ MissingRecordStep =>
       /\ ~lastCall'.ok
       /\ lastCall'.fault = "none" =>
            lastCall'.msg =
              <<"Archived content record ", lastCall'.arg, " not found">>
       /\ UNCHANGED storeVars
  /\ MissingEcocertStep =>
       /\ ~lastCall'.ok
       /\ lastCall'.fault = "none" =>
            lastCall'.msg = <<"Ecocert ", lastCall'.arg, " not found">>
       /\ UNCHANGED storeVars

\* C20: updateArchiveStatus for an id no archive record has throws
\* 'Archived content record <id> not found', markEcocertProcessed for an
\* ecocert the store does not hold throws 'Ecocert <id> not found', and
\* neither changes any row, whatever status and message are passed.
C20_UpdatesNeedTheirRow == [][UpdatesNeedTheirRow]_vars

\* updateArchiveStatus has just been refused for the id after the one
\* record the store holds, which had failed once before.
C20_Witness ==
  /\ lastCall = [op |-> "updateArchiveStatus", arg |-> "2", ok |-> FALSE,
                 fault |-> "none",
                 msg |-> <<"Archived content record ", "2", " not found">>]
  /\ Len(archived_content) = 1
  /\ archived_content[1].status = "failed"
  /\ archived_content[1].retry_count = 1
  /\ ecocerts["e1"].processed_at # NoTime
  /\ ~ecocerts["e2"].present

(***************************************************************************)
(* ContentDownloader.  dl.downloads[k] is one downloadContent(url) call and *)
(* dl.batch the downloadBatch(urls) call that issued them, if any.  A url is *)
(* what new URL() makes of the string: whether it parses, its protocol and *)
(* its host (a name, an IPv4 address by its first two octets, or an IPv6   *)
(* address by its text).  Sizes are in units scaled down to a small        *)
(* maxFileSize.                                                            *)
(***************************************************************************)
maxFileSize == 2
MaxChunks == 2

NameHost(n) == [kind |-> "name", text |-> <<n>>, o1 |-> 0, o2 |-> 0]
V4Host(a, b) == [kind |-> "ipv4", text |-> <<>>, o1 |-> a, o2 |-> b]
V6Host(pieces) == [kind |-> "ipv6", text |-> pieces, o1 |-> 0, o2 |-> 0]

Hosts ==
  {NameHost("example.com"), NameHost("localhost"),
   V4Host(127, 0), V4Host(10, 1), V4Host(172, 15), V4Host(172, 16),
   V4Host(172, 31), V4Host(172, 32), V4Host(192, 168), V4Host(169, 254),
   V4Host(8, 8),
   V6Host(<<"::1">>), V6Host(<<"fc00", ":", ":1">>),
   V6Host(<<"fd12", ":", ":1">>), V6Host(<<"2001", ":", "db8::1">>)}

Urls ==
  [parses : {TRUE}, protocol : {"http:", "https:", "ftp:"}, host : Hosts]
    \cup [parses : {FALSE}, protocol : {""}, host : {NameHost("")}]

\* URL.hostname: the serialized host, as text pieces.  An IPv4 address is
\* its dotted decimal form and an IPv6 address is enclosed in brackets.
Hostname(url) ==
  LET h == url.host IN
    CASE h.kind = "name" -> h.text
      [] h.kind = "ipv4" -> <<ToString(h.o1), ".", ToString(h.o2), ".", "0.1">>
      [] OTHER -> <<"[">> \o h.text \o <<"]">>

\* privatePatterns, each regular expression applied to the hostname text.
StartsWith(h, prefix) ==
  /\ Len(h) >= Len(prefix)
  /\ \A i \in 1..Len(prefix) : h[i] = prefix[i]

MatchesPrivatePattern(h) ==
  \/ h = <<"localhost">>                                  \* /^localhost$/
  \/ StartsWith(h, <<"127", ".">>)                        \* /^127\./
  \/ StartsWith(h, <<"10", ".">>)                         \* /^10\./
  \/ \E n \in 16..31 :                   \* /^172\.(1[6-9]|2[0-9]|3[01])\./
       StartsWith(h, <<"172", ".", ToString(n), ".">>)
  \/ StartsWith(h, <<"192", ".", "168", ".">>)            \* /^192\.168\./
  \/ StartsWith(h, <<"169", ".", "254", ".">>)            \* /^169\.254\./
  \/ h = <<"::1">>                                        \* /^::1$/
  \/ StartsWith(h, <<"fc00", ":">>)                       \* /^fc00:/

ValidationCodes ==
  {"INVALID_URL", "INVALID_PROTOCOL", "HTTPS_REQUIRED",
   "PRIVATE_ADDRESS_BLOCKED"}

\* validateUrl: the code of the ContentError it throws, "" when it passes.
ValidateUrl(url, production) ==
  IF ~url.parses THEN "INVALID_URL"
  ELSE IF url.protocol \notin {"http:", "https:"} THEN "INVALID_PROTOCOL"
  ELSE IF production /\ url.protocol # "https:" THEN "HTTPS_REQUIRED"
  ELSE IF MatchesPrivatePattern(Hostname(url)) THEN "PRIVATE_ADDRESS_BLOCKED"
  ELSE ""

NoLength == -1
Download(url, production) ==
  [url |-> url, production |-> production, pc |-> "notStarted",
   requests |-> 0, declared |-> NoLength, payload |-> <<>>, next |-> 1,
   downloadedSize |-> 0, staged |-> 0, code |-> "", size |-> NoLength]

\* The comparison both size checks make against maxFileSize.
ExceedsLimitOrMeets(n) == n >= maxFileSize
ExceedsLimit(n) == n > maxFileSize

Rejected(d, code) == [d EXCEPT !.pc = "rejected", !.code = code]

RECURSIVE Total(_)
Total(chunks) ==
  IF chunks = <<>> THEN 0 ELSE Head(chunks) + Total(Tail(chunks))

ChunkSizes == 1..(maxFileSize + 1)
Payloads == UNION {[1..n -> ChunkSizes] : n \in 0..MaxChunks}
DeclaredLengths == {NoLength} \cup 0..(maxFileSize + 1)

\* downloadContent up to its first await: validateUrl, then the axios call
\* that issues the request.
Started(d) ==
  LET code == ValidateUrl(d.url, d.production) IN
    IF code # "" THEN Rejected(d, code)
    ELSE [d EXCEPT !.pc = "awaitResponse", !.requests = @ + 1]

\* downloadContent(url) is called on its own.
D_Start(k) ==
  /\ dl.batch.pc = "idle"
  /\ dl.downloads[k].pc = "notStarted"
  /\ dl' = [dl EXCEPT !.downloads[k] = Started(@)]
  /\ UNCHANGED <<storeVars, now, faults, lastQuery, lastCall, pipeVars,
                 runner, app, up>>

\* The request fails or the status is outside 2xx: axios rejects and the
\* outer catch wraps the error.
D_RequestFailed(k) ==
  /\ dl.downloads[k].pc = "awaitResponse"
  /\ dl' = [dl EXCEPT !.downloads[k] = Rejected(@, "DOWNLOAD_FAILED")]
  /\ UNCHANGED <<storeVars, now, faults, lastQuery, lastCall, pipeVars,
                 runner, app, up>>

\* The response headers arrive: validateResponse, then streamDownload opens
\* the temp file and attaches its listeners.
D_Response(k, declared, payload) ==
  /\ dl.downloads[k].pc = "awaitResponse"
  /\ dl' = [dl EXCEPT !.downloads[k] =
       LET d == [@ EXCEPT !.declared = declared, !.payload = payload] IN
         IF declared # NoLength /\ ExceedsLimit(declared)
           THEN Rejected(d, "CONTENT_TOO_LARGE")
           ELSE [d EXCEPT !.pc = "streaming"]]
  /\ UNCHANGED <<storeVars, now, faults, lastQuery, lastCall, pipeVars,
                 runner, app, up>>

\* A 'data' event: the size listener runs first and, past the limit,
\* destroys the writer and rejects; otherwise pipe writes the chunk.
D_Data(k) ==
  /\ dl.downloads[k].pc = "streaming"
  /\ dl.downloads[k].next <= Len(dl.downloads[k].payload)
  /\ dl' = [dl EXCEPT !.downloads[k] =
       LET size == @.downloadedSize + @.payload[@.next] IN
         IF ExceedsLimit(size)
           THEN Rejected([@ EXCEPT !.downloadedSize = size], "FILE_TOO_LARGE")
           ELSE [@ EXCEPT !.downloadedSize = size,
                          !.staged = @ + dl.downloads[k].payload[dl.downloads[k].next],
                          !.next = @ + 1]]
  /\ UNCHANGED <<storeVars, now, faults, lastQuery, lastCall, pipeVars,
                 runner, app, up>>

\* An 'error' event of the response stream or of the writer.
D_StreamFailed(k, code) ==
  /\ dl.downloads[k].pc = "streaming"
  /\ dl' = [dl EXCEPT !.downloads[k] = Rejected(@, code)]
  /\ UNCHANGED <<storeVars, now, faults, lastQuery, lastCall, pipeVars,
                 runner, app, up>>

\* The writer's 'finish' event after the last chunk: the temp file is read
\* back and returned, or reading it fails.
D_Finish(k, readOk) ==
  /\ dl.downloads[k].pc = "streaming"
  /\ dl.downloads[k].next > Len(dl.downloads[k].payload)
  /\ dl' = [dl EXCEPT !.downloads[k] =
       IF readOk THEN [@ EXCEPT !.pc = "resolved", !.size = dl.downloads[k].staged]
       ELSE Rejected(@, "READ_ERROR")]
  /\ UNCHANGED <<storeVars, now, faults, lastQuery, lastCall, pipeVars,
                 runner, app, up>>

InitDownload ==
  /\ ecocerts = EmptyDB.ecocerts
  /\ attestations = EmptyDB.attestations
  /\ archived_content = EmptyDB.archived_content
  /\ now = 0
  /\ faults = 0
  /\ lastQuery = NoQuery
  /\ lastCall = NoCall
  /\ ids = <<>>
  /\ batch = IdleBatch
  /\ task = <<>>
  /\ runner = NoRunners
  /\ app = IdleApp
  /\ up = NoUploads
  /\ \E url \in Urls, production \in BOOLEAN :
       dl = [downloads |-> <<Download(url, production)>>,
             batch |-> IdleDownloadBatch]

Downloads == 1..Len(dl.downloads)

NextDownload ==
  \/ \E k \in Downloads : D_Start(k)
  \/ \E k \in Downloads : D_RequestFailed(k)
  \/ \E k \in Downloads, declared \in DeclaredLengths, payload \in Payloads :
       D_Response(k, declared, payload)
  \/ \E k \in Downloads : D_Data(k)
  \/ \E k \in Downloads, code \in {"STREAM_ERROR", "WRITE_ERROR"} :
       D_StreamFailed(k, code)
  \/ \E k \in Downloads, readOk \in BOOLEAN : D_Finish(k, readOk)

SpecDownload == InitDownload /\ [][NextDownload]_vars

SizeCodes == {"CONTENT_TOO_LARGE", "FILE_TOO_LARGE"}
Settled(d) == d.pc \in {"resolved", "rejected"}

\* C21: a download whose payload is larger than maxFileSize never returns
\* content; when nothing else fails first it is rejected with
\* CONTENT_TOO_LARGE (declared Content-Length over the maximum, nothing
\* read or staged) or FILE_TOO_LARGE (at the first chunk that takes the
\* count over the maximum); a payload of exactly maxFileSize whose declared
\* length is not over the maximum is returned whole.
C21_SizeLimit ==
  \A k \in Downloads :
    LET d == dl.downloads[k]
        got == d.pc \in {"streaming", "resolved"} \/ d.code \in SizeCodes
                 \/ d.code \in {"STREAM_ERROR", "WRITE_ERROR", "READ_ERROR"}
    IN  /\ d.pc = "resolved" =>
             /\ Total(d.payload) <= maxFileSize
             /\ d.size = Total(d.payload)
        /\ d.pc = "rejected" => d.size = NoLength
        /\ (got /\ d.declared > maxFileSize) =>
             /\ d.code = "CONTENT_TOO_LARGE"
             /\ d.downloadedSize = 0 /\ d.staged = 0
        /\ d.code = "CONTENT_TOO_LARGE" => d.declared > maxFileSize
        /\ d.code = "FILE_TOO_LARGE" =>
             /\ d.downloadedSize > maxFileSize
             /\ d.downloadedSize - d.payload[d.next] <= maxFileSize
             /\ d.staged <= maxFileSize
        /\ (got /\ Settled(d) /\ Total(d.payload) > maxFileSize
              /\ d.code \notin {"STREAM_ERROR", "WRITE_ERROR"}) =>
             d.code \in SizeCodes
        /\ (got /\ Settled(d) /\ Total(d.payload) = maxFileSize
              /\ d.declared <= maxFileSize
              /\ d.code \notin {"STREAM_ERROR", "WRITE_ERROR", "READ_ERROR"}) =>
             d.pc = "resolved" /\ d.size = maxFileSize

\* A payload over the maximum that declared a smaller length was cut off
\* with part of it staged.
C21_Witness ==
  \E k \in Downloads :
    /\ dl.downloads[k].code = "FILE_TOO_LARGE"
    /\ dl.downloads[k].staged > 0
    /\ dl.downloads[k].declared = 1
    /\ Total(dl.downloads[k].payload) > maxFileSize

\* The first groups, among those of Hosts, of addresses in fc00::/7.
UniqueLocalGroups == {"fc00", "fd12"}

\* The hosts a download must refuse: localhost, 127.*, 10.*, 172.16-31.*,
\* 192.168.*, 169.254.*, ::1 and fc00::/7.
PrivateHost(h) ==
  \/ h.kind = "name" /\ h.text = <<"localhost">>
  \/ /\ h.kind = "ipv4"
     /\ \/ h.o1 \in {127, 10}
        \/ h.o1 = 172 /\ h.o2 \in 16..31
        \/ h.o1 = 192 /\ h.o2 = 168
        \/ h.o1 = 169 /\ h.o2 = 254
  \/ /\ h.kind = "ipv6"
     /\ \/ h.text = <<"::1">>
        \/ h.text[1] \in UniqueLocalGroups

MustBeRefused(url, production) ==
  /\ url.parses
  /\ \/ url.protocol \notin {"http:", "https:"}
     \/ PrivateHost(url.host)
     \/ production /\ url.protocol # "https:"

\* C22: a download of a url whose protocol is not http/https, whose host is
\* local or private, or (in production) that is not https is rejected by
\* validateUrl and no request is issued for it.
C22_PrivateHostsBlocked ==
  \A k \in Downloads :
    (dl.downloads[k].pc # "notStarted" /\ MustBeRefused(dl.downloads[k].url, dl.downloads[k].production)) =>
      /\ dl.downloads[k].pc = "rejected"
      /\ dl.downloads[k].code \in ValidationCodes
      /\ dl.downloads[k].requests = 0

\* The order of the steps of one url in processUrl (task) and in
\* retryArchiveRecord (runner): each position is entered only from the one
\* before it, with that step's result in hand.
StepsOf(a, b, rec, pcs) ==
  /\ (b.pc = pcs.download /\ a.pc # b.pc) =>
       /\ a.pc = pcs.downloading
       /\ archived_content'[rec].status = "downloading"
  /\ (b.pc = pcs.uploading /\ a.pc # b.pc) =>
       /\ a.pc = pcs.download
       /\ b.content # ""
  /\ (b.pc = pcs.upload /\ a.pc # b.pc) =>
       /\ a.pc = pcs.uploading
       /\ a.content # ""
       /\ archived_content'[rec].status = "uploading"
  /\ (b.pc = pcs.persist /\ a.pc # b.pc) =>
       /\ a.pc = pcs.upload
       /\ b.hash = IpfsHash(b.content)
  /\ (a.pc = pcs.download /\ b.pc # a.pc /\ b.pc # pcs.uploading) =>
       b.pc = pcs.fail
  /\ (a.pc = pcs.fail /\ b.pc # a.pc) => b.pc \in pcs.after

UrlPcs ==
  [downloading |-> "urlDownloading", download |-> "urlDownload",
   uploading |-> "urlUploading", upload |-> "urlUpload",
   persist |-> "urlPersist", fail |-> "urlFail",
   after |-> {"urlInsert", "markProcessed"}]
RecPcs ==
  [downloading |-> "recDownloading", download |-> "recDownload",
   uploading |-> "recUploading", upload |-> "recUpload",
   persist |-> "recPersist", fail |-> "recFail",
   after |-> {"recDownloading", "done"}]

\* A record becomes completed only in the persist step of a call that holds
\* the result of its upload.
CompletedByPersist ==
  \A i \in 1..Len(archived_content') :
    (/\ archived_content'[i].status = "completed"
     /\ i <= Len(archived_content) => archived_content[i].status # "completed")
    =>
      \/ \E k \in Tasks :
           /\ task[k].pc = "urlPersist" /\ task[k].archiveId = i
           /\ task[k].hash # <<>>
           /\ archived_content'[i].ipfs_hash = task[k].hash
      \/ \E r \in Runners :
           /\ runner[r].pc = "recPersist" /\ Current(r).id = i
           /\ runner[r].hash # <<>>
           /\ archived_content'[i].ipfs_hash = runner[r].hash

UrlStepsInOrder ==
  /\ \A k \in Tasks :
       StepsOf(task[k], task'[k],
               IF task'[k].archiveId = 0 THEN 1 ELSE task'[k].archiveId,
               UrlPcs)
  /\ \A r \in Runners :
       StepsOf(runner[r], runner'[r],
               IF runner'[r].queue = <<>> THEN 1
               ELSE runner'[r].queue[runner'[r].idx].id,
               RecPcs)
  /\ CompletedByPersist

\* SpecSingle: processBatch over a single id, store faults included; the
\* steps of one url are those of Spec with no other call running beside it.
InitSingle ==
  /\ Init
  /\ Len(ids) = 1

SpecSingle == InitSingle /\ [][Next]_vars

NewApp ==
  [IdleApp EXCEPT !.isInitialized = FALSE, !.init = "idle",
                  !.ipfsHealthy = FALSE, !.dbInitialized = FALSE]

\* initialize() is called, up to its first await; it returns at once when
\* the archiver is initialized already.
Initialize ==
  /\ app.init \in {"idle", "threw"}
  /\ ~app.isInitialized
  /\ app' = [app EXCEPT !.init = "dbInit"]
  /\ UNCHANGED otherVars

\* await this.databaseService.initialize()
I_DatabaseInitialize(ok) ==
  /\ app.init = "dbInit"
  /\ app' = IF ok THEN [app EXCEPT !.dbInitialized = TRUE,
                                   !.init = "ipfsHealth"]
                  ELSE [app EXCEPT !.init = "threw"]
  /\ UNCHANGED otherVars

\* EcocertService.initialize: await this.ipfsService.healthCheck()
I_IpfsHealthCheck(healthy) ==
  /\ app.init = "ipfsHealth"
  /\ app' = [app EXCEPT !.ipfsHealthy = healthy,
                        !.init = IF healthy THEN "dbInitAgain" ELSE "threw"]
  /\ UNCHANGED otherVars

\* EcocertService.initialize: await this.databaseService.initialize()
I_EcocertDatabaseInitialize(ok) ==
  /\ app.init = "dbInitAgain"
  /\ app' = IF ok THEN [app EXCEPT !.dbInitialized = TRUE,
                                   !.init = "healthChecks"]
                  ELSE [app EXCEPT !.init = "threw"]
  /\ UNCHANGED otherVars

\* await this.performHealthChecks(): databaseService.healthCheck() reports
\* a failure in its result and never throws, and the result is not read.
I_PerformHealthChecks(connection) ==
  /\ app.init = "healthChecks"
  /\ app' = [app EXCEPT !.isInitialized = TRUE, !.init = "done"]
  /\ UNCHANGED otherVars

\* databaseService.destroy() is called, by shutdown() or by the owner of
\* the singleton: isInitialized is reset only when db.destroy() resolves.
StoreDestroy(ok) ==
  /\ app' = [app EXCEPT !.destroyCalled = TRUE,
                        !.dbInitialized = IF ok THEN FALSE ELSE @]
  /\ UNCHANGED otherVars

InitInit ==
  /\ ecocerts = EmptyDB.ecocerts
  /\ attestations = EmptyDB.attestations
  /\ archived_content = <<>>
  /\ now = 0
  /\ faults = 0
  /\ lastQuery = NoQuery
  /\ lastCall = NoCall
  /\ ids = <<>>
  /\ batch = IdleBatch
  /\ task = <<>>
  /\ runner = NoRunners
  /\ app = NewApp
  /\ dl = NoDownloads
  /\ up = NoUploads

\* The record createArchivedContentRecord inserts for the url u1 of e1.
InitContent ==
  [ecocert_id |-> "e1", attestation_uid |-> "att_001", original_url |-> "u1",
   ipfs_hash |-> <<>>, ipfs_url |-> <<>>, status |-> ""]

NextInit ==
  \/ Initialize
  \/ \E ok \in BOOLEAN : I_DatabaseInitialize(ok)
  \/ \E healthy \in BOOLEAN : I_IpfsHealthCheck(healthy)
  \/ \E ok \in BOOLEAN : I_EcocertDatabaseInitialize(ok)
  \/ \E connection \in BOOLEAN : I_PerformHealthChecks(connection)
  \/ \E c \in AppCalls, valid \in BOOLEAN : StartCall(c, valid)
  \/ \E c \in AppCalls : FinishCall(c)
  \/ \E ok \in BOOLEAN : StoreDestroy(ok)
  \/ StoreInsertEcocert("e1", TitleOf("e1"), "none")
  \/ StoreInsertAttestation("att_001", "e1", "none")
  \/ StoreInsertArchivedContent(InitContent, "none")
  \/ StoreMarkEcocertProcessed("e1", "none")
  \/ StoreUpdateArchiveStatus(1, "completed", NullMsg, "none")

SpecInit == InitInit /\ [][NextInit]_vars


\* The calls that have got past ensureInitialized.
PastTheGate ==
  {"running", "returned", "rejectedShuttingDown", "rejectedNoValidIds"}
MutatingOps ==
  {"insertEcocert", "insertAttestation", "insertArchivedContent",
   "markEcocertProcessed", "updateArchiveStatus"}

\* initialize() has completed only after healthCheck returned true and
\* the store's initialize() resolved; no entry point gets past the gate
\* before that.
GatedByInitialize ==
  /\ app.isInitialized =>
       /\ app.ipfsHealthy
       /\ app.dbInitialized \/ app.destroyCalled
  /\ \A c \in AppCalls :
       app.call[c].pc \in PastTheGate => app.isInitialized

\* An entry point called before initialize() has completed is rejected
\* with 'Application not initialized' and writes nothing.
RejectedBeforeInitialize ==
  \A c \in AppCalls :
    (/\ ~app.isInitialized
     /\ app.call[c].pc = "idle"
     /\ app'.call[c].pc # "idle") =>
      /\ app'.call[c].pc = "rejectedNotInitialized"
      /\ app'.processingPromises = app.processingPromises
      /\ UNCHANGED storeVars

\* A store operation called while the store is not initialized.
UninitializedStoreStep(op) ==
  /\ lastCall'.op = op
  /\ app' = app
  /\ ~app.dbInitialized

StoreNeedsInitialize ==
  \A op \in MutatingOps :
    UninitializedStoreStep(op) =>
      /\ ~lastCall'.ok
      /\ lastCall'.msg = NotInitialized
      /\ UNCHANGED storeVars

\* C24: no pipeline run executes unless initialize() has completed, which
\* requires a true healthCheck of the pinning service and an initialized
\* store; before that every entry point is rejected and writes nothing, and
\* every mutating store operation called before the store's initialize()
\* or after its destroy() fails with the not-initialized error.
C24_NothingBeforeInitialize ==
  [][/\ GatedByInitialize'
     /\ RejectedBeforeInitialize
     /\ StoreNeedsInitialize]_vars

\* One entry point was rejected before initialize(), another ran after it,
\* an ecocert was written while the store was initialized, and a store
\* operation called after destroy() failed with the not-initialized error.
C24_Witness ==
  /\ app.call["processAll"].pc = "rejectedNotInitialized"
  /\ app.call["retryFailed"].pc = "returned"
  /\ ecocerts["e1"].present
  /\ app.destroyCalled /\ ~app.dbInitialized
  /\ lastCall.op = "markEcocertProcessed"
  /\ ~lastCall.ok /\ lastCall.msg = NotInitialized


(***************************************************************************)
(* SpecDownloadBatch: one downloadBatch(urls) call over every list of up   *)
(* to MaxUrls urls, each a public https url or a url validation refuses;   *)
(* a request may fail, and a response may fit or exceed maxFileSize.       *)
(***************************************************************************)
MaxUrls == 3
\* MAX_CONCURRENT_DOWNLOADS, scaled down from its default 5.
maxConcurrentDownloads == 2

PublicUrl ==
  [parses |-> TRUE, protocol |-> "https:", host |-> NameHost("example.com")]
LocalUrl ==
  [parses |-> TRUE, protocol |-> "http:", host |-> NameHost("localhost")]
BatchUrls == {PublicUrl, LocalUrl}
UrlLists == UNION {[1..n -> BatchUrls] : n \in 0..MaxUrls}
BatchPayloads == {<<maxFileSize>>, <<maxFileSize + 1>>}

\* urls.slice(i, i + maxConcurrent)
DownloadGroup(i) ==
  {k \in Downloads : i < k /\ k <= i + maxConcurrentDownloads}

\* What the wrapper of downloadBatch resolves with for one url: the
\* DownloadResult, or the Error it caught.
Captured(k, d) ==
  IF d.pc = "resolved"
    THEN [url |-> k, error |-> FALSE, code |-> "", size |-> d.size]
    ELSE [url |-> k, error |-> TRUE, code |-> d.code, size |-> NoLength]

\* Promise.all over the wrappers, none of which rejects: it resolves when
\* every download of the group has settled.
GroupAnySettled(downloads, group) ==
  \E k \in group : Settled(downloads[k])
GroupSettled(downloads, group) ==
  \A k \in group : Settled(downloads[k])

RECURSIVE CapturedFrom(_, _, _)
CapturedFrom(downloads, from, to) ==
  IF from > to THEN <<>>
  ELSE <<Captured(from, downloads[from])>>
         \o CapturedFrom(downloads, from + 1, to)

\* downloadBatch(urls) is called.
DB_Call ==
  /\ dl.batch.pc = "idle"
  /\ \A k \in Downloads : dl.downloads[k].pc = "notStarted"
  /\ dl' = [dl EXCEPT !.batch.pc = "loop"]
  /\ UNCHANGED <<storeVars, now, faults, lastQuery, lastCall, pipeVars,
                 runner, app, up>>

\* The loop head: downloadContent is called for every url of the next
\* group and Promise.all is awaited, or the loop is over and results is
\* returned.
DB_Loop ==
  /\ dl.batch.pc = "loop"
  /\ dl' =
       IF dl.batch.i < Len(dl.downloads)
         THEN [dl EXCEPT
                 !.downloads =
                   [k \in Downloads |->
                      IF k \in DownloadGroup(dl.batch.i)
                        THEN Started(dl.downloads[k]) ELSE dl.downloads[k]],
                 !.batch.pc = "awaiting"]
         ELSE [dl EXCEPT !.batch.pc = "returned"]
  /\ UNCHANGED <<storeVars, now, faults, lastQuery, lastCall, pipeVars,
                 runner, app, up>>

\* Promise.all resolves: results.push(...batchResults).
DB_GroupSettled ==
  /\ dl.batch.pc = "awaiting"
  /\ GroupSettled(dl.downloads, DownloadGroup(dl.batch.i))
  /\ LET hi == IF dl.batch.i + maxConcurrentDownloads < Len(dl.downloads)
                 THEN dl.batch.i + maxConcurrentDownloads
                 ELSE Len(dl.downloads) IN
       dl' = [dl EXCEPT
                !.batch.results =
                  @ \o CapturedFrom(dl.downloads, dl.batch.i + 1, hi),
                !.batch.i = @ + maxConcurrentDownloads,
                !.batch.pc = "loop"]
  /\ UNCHANGED <<storeVars, now, faults, lastQuery, lastCall, pipeVars,
                 runner, app, up>>

InitDownloadBatch ==
  /\ ecocerts = EmptyDB.ecocerts
  /\ attestations = EmptyDB.attestations
  /\ archived_content = EmptyDB.archived_content
  /\ now = 0
  /\ faults = 0
  /\ lastQuery = NoQuery
  /\ lastCall = NoCall
  /\ ids = <<>>
  /\ batch = IdleBatch
  /\ task = <<>>
  /\ runner = NoRunners
  /\ app = IdleApp
  /\ up = NoUploads
  /\ \E urls \in UrlLists :
       dl = [downloads |-> [k \in 1..Len(urls) |-> Download(urls[k], FALSE)],
             batch |-> IdleDownloadBatch]

NextDownloadBatch ==
  \/ DB_Call
  \/ DB_Loop
  \/ DB_GroupSettled
  \/ \E k \in Downloads : D_RequestFailed(k)
  \/ \E k \in Downloads, payload \in BatchPayloads :
       D_Response(k, NoLength, payload)
  \/ \E k \in Downloads : D_Data(k)
  \/ \E k \in Downloads : D_StreamFailed(k, "STREAM_ERROR")
  \/ \E k \in Downloads : D_Finish(k, TRUE)

SpecDownloadBatch == InitDownloadBatch /\ [][NextDownloadBatch]_vars

DownloadsInFlight ==
  {k \in Downloads : dl.downloads[k].pc \in {"awaitResponse", "streaming"}}

\* C28: downloadBatch never rejects and returns a list as long as urls in
\* which slot i holds the result or the captured error of urls[i]; a
\* failing url does not keep its siblings from being downloaded; at most
\* maxConcurrent downloads are in flight and a group starts only after the
\* previous group has fully settled.
C28_BatchDownload ==
  /\ dl.batch.pc \in {"idle", "loop", "awaiting", "returned"}
  /\ dl.batch.pc = "returned" =>
       /\ Len(dl.batch.results) = Len(dl.downloads)
       /\ \A k \in Downloads :
            /\ Settled(dl.downloads[k])
            /\ dl.batch.results[k] = Captured(k, dl.downloads[k])
            /\ dl.downloads[k].url = PublicUrl =>
                 dl.downloads[k].requests = 1
  /\ Cardinality(DownloadsInFlight) <= maxConcurrentDownloads
  /\ \A k \in Downloads :
       dl.downloads[k].pc # "notStarted" =>
         \A j \in Downloads :
           (\E g \in 1..MaxUrls :
              /\ j <= g * maxConcurrentDownloads
              /\ k > g * maxConcurrentDownloads) =>
             Settled(dl.downloads[j])

\* A batch of three urls returned: the first was refused by validation, the
\* second was downloaded, and the third, in the second group, was cut off
\* at the size limit.
C28_Witness ==
  /\ dl.batch.pc = "returned"
  /\ Len(dl.downloads) = 3
  /\ dl.batch.results[1].code = "PRIVATE_ADDRESS_BLOCKED"
  /\ ~dl.batch.results[2].error
  /\ dl.batch.results[3].code = "FILE_TOO_LARGE"

(***************************************************************************)
(* PinataIPFSService.  up.uploads[k] is one upload(content, filename)      *)
(* call and up.batch the uploadBatch(files) call that issued them, if any. *)
(* A file is its size (content.length, in the units of maxFileSize), the   *)
(* extension of its filename ("" when it has none) and the suspicious      *)
(* pattern its first 1024 bytes contain ("" when none).                    *)
(***************************************************************************)
MaxFiles == 3
\* MAX_CONCURRENT_UPLOADS, scaled down from its default 3.
maxConcurrentUploads == 2

allowedExtensions ==
  {".pdf", ".html", ".htm", ".txt", ".json", ".csv", ".jpg", ".jpeg",
   ".png", ".gif", ".webp", ".mp4", ".mov"}
allowedMimeTypes ==
  {"application/pdf", "text/html", "text/plain", "image/jpeg", "image/png",
   "image/gif", "image/webp", "video/mp4", "application/json", "text/csv"}
suspiciousPatterns == {"<script", "javascript:", "eval(", "document.write"}

\* mime.lookup(filename) for the extensions used here; "false" is the
\* value false it returns for a name without a known extension.
MimeLookup(extension) ==
  CASE extension = ".txt" -> "text/plain"
    [] extension = ".html" -> "text/html"
    [] extension = ".mov" -> "video/quicktime"
    [] extension = ".zip" -> "application/zip"
    [] OTHER -> "false"

FileSizes == {maxFileSize, maxFileSize + 1}
Extensions == {"", ".txt", ".html", ".mov", ".zip"}
Files ==
  [size : FileSizes, extension : Extensions,
   pattern : suspiciousPatterns \cup {""}]

\* validateContent: the errors it collects.
ValidationErrorsNoExtension(file, requireHttps) ==
  (IF file.size > maxFileSize THEN {"size"} ELSE {})
    \cup (IF /\ requireHttps
             /\ MimeLookup(file.extension) # "false"
             /\ MimeLookup(file.extension) \notin allowedMimeTypes
            THEN {"contentType"} ELSE {})
ValidationErrors(file, requireHttps) ==
  (IF file.size > maxFileSize THEN {"size"} ELSE {})
    \cup (IF file.extension # "" /\ file.extension \notin allowedExtensions
            THEN {"extension"} ELSE {})
    \cup (IF /\ requireHttps
             /\ MimeLookup(file.extension) # "false"
             /\ MimeLookup(file.extension) \notin allowedMimeTypes
            THEN {"contentType"} ELSE {})
\* validateContent: the warnings of the scan of the first 1024 bytes.
ValidationWarnings(file, scanForMalware) ==
  IF scanForMalware /\ file.pattern \in suspiciousPatterns
    THEN {file.pattern} ELSE {}
IsValid(file, requireHttps) == ValidationErrors(file, requireHttps) = {}

\* An upload() that has not been called yet.
Upload(file, requireHttps, scanForMalware) ==
  [file |-> file, requireHttps |-> requireHttps,
   scanForMalware |-> scanForMalware, pc |-> "idle", pinRequests |-> 0,
   errors |-> {}, warnings |-> {}, code |-> ""]

\* upload() from its call to its first wait for the network: the
\* validation, and on success the pinFileToIPFS request.  A failed
\* validation throws CONTENT_VALIDATION_FAILED inside the try, which the
\* catch wraps into IPFSError IPFS_UPLOAD_FAILED.
Called(u) ==
  LET errors == ValidationErrors(u.file, u.requireHttps)
      warnings == ValidationWarnings(u.file, u.scanForMalware) IN
    IF errors # {}
      THEN [u EXCEPT !.pc = "rejected", !.errors = errors,
                     !.warnings = warnings, !.code = "IPFS_UPLOAD_FAILED"]
      ELSE [u EXCEPT !.pc = "pinning", !.warnings = warnings,
                     !.pinRequests = @ + 1]

upVars == <<ecocerts, attestations, archived_content, now, faults,
            lastQuery, lastCall, ids, batch, task, runner, app, dl>>

Uploads == 1..Len(up.uploads)
SettledUpload(u) == u.pc \in {"resolved", "rejected"}

\* The files of the group uploadBatch is at: files.slice(i, i + maxConcurrent).
Group(i) ==
  {k \in Uploads : i < k /\ k <= i + maxConcurrentUploads}

\* await Promise.all(batchPromises) can go on: every promise of the group
\* has resolved, or one of them has rejected.
PromiseAllSettled(uploads, group) ==
  \/ \A k \in group : uploads[k].pc = "resolved"
  \/ \E k \in group : uploads[k].pc = "rejected"

\* A continuation of uploadBatch is ready to run; it runs before any
\* further network event is delivered.
Runnable ==
  \/ up.batch.pc = "loop"
  \/ up.batch.pc = "awaiting"
       /\ PromiseAllSettled(up.uploads, Group(up.batch.i))

\* upload(content, filename) is called on its own.
U_Call(k) ==
  /\ up.batch.pc = "idle"
  /\ up.uploads[k].pc = "idle"
  /\ up' = [up EXCEPT !.uploads[k] = Called(@)]
  /\ UNCHANGED upVars

\* pinFileToIPFS settles; inside uploadBatch the wrapper pushes the result
\* to results or the error to errors.
U_Pinned(k, ok) ==
  /\ up.uploads[k].pc = "pinning"
  /\ ~Runnable
  /\ LET inBatch == up.batch.pc # "idle" IN
       up' = IF ok
               THEN [up EXCEPT !.uploads[k].pc = "resolved",
                               !.batch.results =
                                 IF inBatch THEN Append(@, k) ELSE @]
               ELSE [up EXCEPT !.uploads[k].pc = "rejected",
                               !.uploads[k].code = "IPFS_UPLOAD_FAILED",
                               !.batch.errors =
                                 IF inBatch THEN Append(@, k) ELSE @]
  /\ UNCHANGED upVars

\* The uploads from..to that were rejected by their validation, in order.
RECURSIVE RejectedIn(_, _, _)
RejectedIn(uploads, from, to) ==
  IF from > to THEN <<>>
  ELSE (IF uploads[from].pc = "rejected" THEN <<from>> ELSE <<>>)
         \o RejectedIn(uploads, from + 1, to)

\* uploadBatch(files) is called.
UB_Call ==
  /\ up.batch.pc = "idle"
  /\ \A k \in Uploads : up.uploads[k].pc = "idle"
  /\ up' = [up EXCEPT !.batch.pc = "loop"]
  /\ UNCHANGED upVars

\* The loop head: the next group's uploads are all called and Promise.all
\* is awaited, or the loop is over and uploadBatch returns results or
\* throws BATCH_UPLOAD_FAILED.
UB_Loop ==
  /\ up.batch.pc = "loop"
  /\ IF up.batch.i < Len(up.uploads)
       THEN LET started ==
                  [k \in Uploads |->
                     IF k \in Group(up.batch.i) THEN Called(up.uploads[k])
                     ELSE up.uploads[k]]
                hi == IF up.batch.i + maxConcurrentUploads < Len(up.uploads)
                        THEN up.batch.i + maxConcurrentUploads
                        ELSE Len(up.uploads) IN
              up' = [up EXCEPT
                       !.uploads = started,
                       !.batch.errors =
                         @ \o RejectedIn(started, up.batch.i + 1, hi),
                       !.batch.pc = "awaiting"]
       ELSE up' = [up EXCEPT
                     !.batch.pc =
                       IF Len(up.batch.errors) > 0
                            /\ Len(up.batch.results) = 0
                         THEN "threw" ELSE "returned",
                     !.batch.returned = up.batch.results]
  /\ UNCHANGED upVars

\* Promise.all has resolved, or has rejected and the catch has logged it:
\* the loop moves on to the next group.
UB_GroupSettled ==
  /\ up.batch.pc = "awaiting"
  /\ PromiseAllSettled(up.uploads, Group(up.batch.i))
  /\ up' = [up EXCEPT !.batch.pc = "loop",
                      !.batch.i = @ + maxConcurrentUploads]
  /\ UNCHANGED upVars

InitUploads(uploads) ==
  /\ ecocerts = EmptyDB.ecocerts
  /\ attestations = EmptyDB.attestations
  /\ archived_content = <<>>
  /\ now = 0
  /\ faults = 0
  /\ lastQuery = NoQuery
  /\ lastCall = NoCall
  /\ ids = <<>>
  /\ batch = IdleBatch
  /\ task = <<>>
  /\ runner = NoRunners
  /\ app = IdleApp
  /\ dl = NoDownloads
  /\ up = [uploads |-> uploads, batch |-> IdleUploadBatch]

\* One upload of any file under any setting of REQUIRE_HTTPS and
\* SCAN_FOR_MALWARE.
InitUpload ==
  \E file \in Files, requireHttps \in BOOLEAN, scanForMalware \in BOOLEAN :
    InitUploads(<<Upload(file, requireHttps, scanForMalware)>>)

NextUpload ==
  \/ \E k \in Uploads : U_Call(k)
  \/ \E k \in Uploads, ok \in BOOLEAN : U_Pinned(k, ok)

SpecUpload == InitUpload /\ [][NextUpload]_vars


\* The content is larger than the configured maximum.
TooLarge(file) == file.size > maxFileSize
\* The filename has an extension and it is outside the allowlist.
ExtensionOutside(file) ==
  file.extension # "" /\ file.extension \notin allowedExtensions
\* A MIME type is detected for the filename and it is outside the allowlist.
MimeOutside(file) ==
  /\ MimeLookup(file.extension) # "false"
  /\ MimeLookup(file.extension) \notin allowedMimeTypes
MustFailValidation(u) ==
  \/ TooLarge(u.file)
  \/ ExtensionOutside(u.file)
  \/ u.requireHttps /\ MimeOutside(u.file)

\* C26: upload() validates before it contacts the pinning service: content
\* over the maximum size, an extension outside the allowlist or, with
\* REQUIRE_HTTPS set, a detected MIME type outside the allowlist makes the
\* upload fail with an IPFSError and no pin request is sent; a pin request
\* is only ever sent for content that passed.
C26_ValidatedBeforePin ==
  \A k \in Uploads :
    LET u == up.uploads[k] IN
      /\ (u.pc # "idle" /\ MustFailValidation(u)) =>
           /\ u.pc = "rejected"
           /\ u.code = "IPFS_UPLOAD_FAILED"
           /\ u.pinRequests = 0
      /\ u.pinRequests > 0 => ~MustFailValidation(u)

\* An upload of a .mov file of allowed size was rejected on its detected
\* MIME type alone, without a pin request.
C26_Witness ==
  \E k \in Uploads :
    LET u == up.uploads[k] IN
      /\ u.pc = "rejected"
      /\ u.file.extension = ".mov"
      /\ u.errors = {"contentType"}
      /\ u.pinRequests = 0

\* C27: upload() rejects with an IPFSError, before any pin request, every
\* content whose leading bytes contain a script-like pattern, also when
\* size, extension and MIME type are allowed.
C27_ScriptsRejected ==
  \A k \in Uploads :
    LET u == up.uploads[k] IN
      (u.pc # "idle" /\ u.file.pattern \in suspiciousPatterns) =>
        /\ u.pc = "rejected"
        /\ u.pinRequests = 0


(***************************************************************************)
(* SpecUploadBatch: one uploadBatch(files) call over every list of up to   *)
(* MaxFiles files, each a text file that passes validation (its pin        *)
(* request may still fail) or an archive that validation refuses.          *)
(***************************************************************************)
GoodFile == [size |-> maxFileSize, extension |-> ".txt", pattern |-> ""]
RefusedFile == [size |-> maxFileSize, extension |-> ".zip", pattern |-> ""]
BatchFiles == {GoodFile, RefusedFile}
FileLists == UNION {[1..n -> BatchFiles] : n \in 0..MaxFiles}

InitUploadBatch ==
  \E files \in FileLists :
    InitUploads([k \in 1..Len(files) |-> Upload(files[k], TRUE, TRUE)])

NextUploadBatch ==
  \/ UB_Call
  \/ UB_Loop
  \/ UB_GroupSettled
  \/ \E k \in Uploads, ok \in BOOLEAN : U_Pinned(k, ok)

SpecUploadBatch == InitUploadBatch /\ [][NextUploadBatch]_vars

BatchOver == up.batch.pc \in {"returned", "threw"}
UploadsSucceeded == {k \in Uploads : up.uploads[k].pc = "resolved"}
UploadsFailed == {k \in Uploads : up.uploads[k].pc = "rejected"}
UploadsInFlight == {k \in Uploads : up.uploads[k].pc = "pinning"}
Range(s) == {s[i] : i \in 1..Len(s)}

\* C25: uploadBatch returns exactly the results of the uploads that
\* succeeded, without raising whenever at least one succeeds, and raises
\* if and only if at least one failed and none succeeded; at most
\* maxConcurrent uploads are in flight and a group starts only after the
\* previous group has settled.
C25_BatchUpload ==
  /\ up.batch.pc = "returned" =>
       /\ UploadsInFlight = {}
       /\ Range(up.batch.returned) = UploadsSucceeded
       /\ Len(up.batch.returned) = Cardinality(UploadsSucceeded)
  /\ up.batch.pc = "threw" =>
       /\ UploadsInFlight = {}
       /\ UploadsFailed # {}
       /\ UploadsSucceeded = {}
  /\ (BatchOver /\ UploadsInFlight = {}) =>
       (up.batch.pc = "threw" <=> (UploadsFailed # {} /\ UploadsSucceeded = {}))
  /\ Cardinality(UploadsInFlight) <= maxConcurrentUploads
  /\ \A k \in Uploads :
       up.uploads[k].pc # "idle" =>
         \A j \in Uploads :
           j + maxConcurrentUploads <= up.batch.i =>
             SettledUpload(up.uploads[j])


(***************************************************************************)
(* SpecSpecific: one processSpecificEcocerts(ecocertIds) call on an         *)
(* initialized archiver, over any list of ids, the malformed id included,   *)
(* against a store whose statements do not fail on their own.               *)
(* app.requested is the list the caller passed; ids is the list handed to   *)
(* processBatch.                                                            *)
(***************************************************************************)
\* The ids parseEcocertId accepts, in the order given.
ValidIds(requested) == SelectSeq(requested, WellFormed)

\* processSpecificEcocerts up to its first await: the ids are parsed, the
\* call throws NO_VALID_ECOCERTS when none is valid, otherwise processBatch
\* is called with the valid ids and its first chunk is started.
PS_Call ==
  /\ app.call["processSpecific"].pc = "idle"
  /\ batch.pc = "idle"
  /\ LET validIds == ValidIds(app.requested) IN
       IF validIds = <<>>
         THEN /\ app' = [app EXCEPT
                           !.call["processSpecific"].pc = "rejectedNoValidIds"]
              /\ UNCHANGED <<ids, task, batch>>
         ELSE /\ app' = [app EXCEPT
                           !.call["processSpecific"].pc = "running",
                           !.processingPromises = @ \cup {"processSpecific"}]
              /\ ids' = validIds
              /\ batch' = [batch EXCEPT !.pc = "running"]
              /\ task' = [k \in 1..Len(validIds) |->
                            IF k <= maxConcurrent THEN StartTask(validIds[k])
                            ELSE IdleTask]
  /\ UNCHANGED <<storeVars, now, faults, lastQuery, lastCall, runner, dl, up>>

\* processBatch has returned: the finally block removes the promise and
\* the call returns { results, summary }.
PS_Return ==
  /\ app.call["processSpecific"].pc = "running"
  /\ batch.pc = "done"
  /\ app' = [app EXCEPT !.call["processSpecific"].pc = "returned",
                        !.processingPromises = @ \ {"processSpecific"}]
  /\ UNCHANGED otherVars

RequestedLists ==
  {l \in Lists(MaxIds) : l # <<>> /\ \A i \in 1..Len(l) : l[i] \in BatchIds}

InitSpecific ==
  /\ ecocerts = EmptyDB.ecocerts
  /\ attestations = EmptyDB.attestations
  /\ archived_content = <<>>
  /\ now = 1
  /\ faults = MaxFaults
  /\ lastQuery = NoQuery
  /\ lastCall = NoCall
  /\ ids = <<>>
  /\ batch = IdleBatch
  /\ task = <<>>
  /\ runner = NoRunners
  /\ \E requested \in RequestedLists :
       app = [IdleApp EXCEPT !.requested = requested]
  /\ dl = NoDownloads
  /\ up = NoUploads

NextSpecific ==
  \/ PS_Call
  \/ PS_Return
  \/ NextChunk
  \/ \E k \in Tasks : T_InsertEcocert(k, "none")
  \/ \E k \in Tasks : T_FetchAttestations(k)
  \/ \E k \in Tasks : T_InsertAttestation(k, "none")
  \/ \E k \in Tasks : T_MarkProcessed(k, "none")
  \/ \E k \in Tasks : T_UrlInsert(k, "none")
  \/ \E k \in Tasks, status \in {"downloading", "uploading"} :
       T_UrlStatus(k, status, "none")
  \/ \E k \in Tasks, outcome \in DownloadOutcomes : T_UrlDownload(k, outcome)
  \/ \E k \in Tasks, ok \in BOOLEAN : T_UrlUpload(k, ok)
  \/ \E k \in Tasks : T_UrlPersist(k, "none")
  \/ \E k \in Tasks : T_UrlFail(k, "none")

SpecSpecific == InitSpecific /\ [][NextSpecific]_vars

SpecificOver ==
  app.call["processSpecific"].pc \in {"returned", "rejectedNoValidIds"}

\* The positions of the requested list whose processing cannot succeed or
\* did not: the id is malformed, or its run archived none of its urls.
Unsuccessful(i) ==
  \/ ~WellFormed(app.requested[i])
  \/ \E k \in Tasks :
       /\ ids[k] = app.requested[i]
       /\ task[k].urlsExtracted > 0
       /\ task[k].successfullyArchived = 0

\* C29: for every id passed to processSpecificEcocerts whose processing
\* cannot succeed, a malformed id included, the call does not raise and
\* its results hold an entry for that id with status failed and at least
\* one error.
C29_FailuresAreReported ==
  SpecificOver =>
    /\ app.call["processSpecific"].pc = "returned"
    /\ \A i \in 1..Len(app.requested) :
         Unsuccessful(i) =>
           \E j \in 1..Len(batch.results) :
             /\ batch.results[j].ecocertId = app.requested[i]
             /\ batch.results[j].status = "failed"
             /\ Len(batch.results[j].errors) >= 1


(***************************************************************************)
(* SpecLink: the url loop of processEcocert for one identifier, over every  *)
(* list of up to MaxAttestations attestations with up to MaxSources url     *)
(* sources each.  task[1] holds the fetched attestations, the urls          *)
(* extracted from them and the records handed to insertArchivedContent.     *)
(***************************************************************************)
MaxAttestations == 2
MaxSources == 2

LinkUrls == {"u1", "u2", "u3"}
SourceLists ==
  UNION {[1..n -> {UrlSource(u) : u \in LinkUrls}] : n \in 0..MaxSources}
AttestationLists ==
  UNION {{atts \in [1..n -> [uid : Uids, sources : SourceLists]] :
            \A i, j \in 1..n : i # j => atts[i].uid # atts[j].uid} :
         n \in 1..MaxAttestations}

\* createArchivedContentRecord as processEcocert calls it for a url.
LinkedRecord(id, atts, url) ==
  [ecocert_id |-> id, attestation_uid |-> atts[1].uid, original_url |-> url]

InitLink ==
  /\ ecocerts = EmptyDB.ecocerts
  /\ attestations = EmptyDB.attestations
  /\ archived_content = <<>>
  /\ now = 0
  /\ faults = 0
  /\ lastQuery = NoQuery
  /\ lastCall = NoCall
  /\ ids = <<"e1">>
  /\ batch = IdleBatch
  /\ \E atts \in AttestationLists :
       task = <<[attestations |-> atts, urls |-> ExtractExternalUrls(atts),
                 urlIdx |-> 1, records |-> <<>>]>>
  /\ runner = NoRunners
  /\ app = IdleApp
  /\ dl = NoDownloads
  /\ up = NoUploads

\* One turn of the url loop: processUrl(ecocertId, attestations[0].uid, url)
\* creates the record of the url; whether the rest of processUrl succeeds
\* or throws, the loop goes on to the next url.
L_ProcessUrl ==
  /\ task[1].urlIdx <= Len(task[1].urls)
  /\ task' = [task EXCEPT
                ![1].records =
                  Append(@, LinkedRecord(ids[1], task[1].attestations,
                                         task[1].urls[task[1].urlIdx])),
                ![1].urlIdx = @ + 1]
  /\ UNCHANGED <<storeVars, now, faults, lastQuery, lastCall, ids, batch,
                 runner, app, dl, up>>

NextLink == L_ProcessUrl

SpecLink == InitLink /\ [][NextLink]_vars

\* C30: the attestation an archive record refers to is one of the
\* identifier's attestations and its sources contain the record's
\* originalUrl, for identifiers with any number of attestations.
C30_RecordNamesItsAttestation ==
  \A i \in 1..Len(task[1].records) :
    LET r == task[1].records[i] IN
      /\ r.ecocert_id = ids[1]
      /\ \E a \in 1..Len(task[1].attestations) :
           /\ task[1].attestations[a].uid = r.attestation_uid
           /\ \E s \in 1..Len(task[1].attestations[a].sources) :
                task[1].attestations[a].sources[s].src = r.original_url

(***************************************************************************)
(* getArchivingStats: four aggregate statements issued together through    *)
(* Promise.all, each on a pool connection of its own and outside any        *)
(* transaction, so each reads the tables as they are when it executes and   *)
(* statements of other callers can commit in between.  PostgreSQL returns   *)
(* COUNT as a decimal string, which the code parses.  The derived figures   *)
(* are exact rationals in lowest terms; the rounding of the double          *)
(* arithmetic of (a / b) * 100 is not modelled.                             *)
(***************************************************************************)
Digit == <<"0", "1", "2", "3", "4", "5", "6", "7", "8", "9">>
NaN == -1

RECURSIVE ToDigits(_)
\* The text of a bigint count as PostgreSQL sends it.
ToDigits(n) ==
  IF n < 10 THEN <<Digit[n + 1]>>
  ELSE ToDigits(n \div 10) \o <<Digit[(n % 10) + 1]>>

DigitValue(c) == CHOOSE d \in 0..9 : Digit[d + 1] = c
IsDigit(c) == \E d \in 0..9 : Digit[d + 1] = c

RECURSIVE ParseDigits(_, _, _)
ParseDigits(s, i, acc) ==
  IF i > Len(s) \/ ~IsDigit(s[i]) THEN acc
  ELSE ParseDigits(s, i + 1, acc * 10 + DigitValue(s[i]))

\* parseInt: the leading digits of the text, NaN when there are none.
ParseInt(s) ==
  IF Len(s) = 0 \/ ~IsDigit(s[1]) THEN NaN ELSE ParseDigits(s, 1, 0)

\* x || 0 for a number: NaN and 0 are falsy.
OrZero(x) == IF x = NaN \/ x = 0 THEN 0 ELSE x

RECURSIVE Gcd(_, _)
Gcd(a, b) == IF b = 0 THEN a ELSE Gcd(b, a % b)

\* The number n / d, d > 0.
Ratio(n, d) ==
  LET g == Gcd(n, d) IN [num |-> n \div g, den |-> d \div g]
Zero == Ratio(0, 1)

StatQueries == {"ecocerts", "attestations", "status", "overall"}

CountRows(db, status) ==
  Cardinality({i \in 1..Len(db.archived_content) :
                 db.archived_content[i].status = status})

\* COUNT(*), COUNT(processed_at) over ecocerts.
EcocertStats(db) ==
  [total |-> ToDigits(Cardinality({e \in EcocertIds : db.ecocerts[e].present})),
   processed |->
     ToDigits(Cardinality({e \in EcocertIds :
                             /\ db.ecocerts[e].present
                             /\ db.ecocerts[e].processed_at # NoTime}))]

\* count('* as total') over attestations.
AttestationStats(db) ==
  [total |-> ToDigits(Cardinality({u \in Uids : db.attestations[u] # NoRow}))]

\* select status, count(*) group by status: one row per status that occurs.
ArchiveStatusStats(db) ==
  [s \in {t \in ArchiveStatus : CountRows(db, t) > 0} |->
     ToDigits(CountRows(db, s))]

\* COUNT(*), COUNT(DISTINCT ecocert_id) over archived_content.
OverallStats(db) ==
  [total_urls |-> ToDigits(Len(db.archived_content)),
   ecocerts_with_content |->
     ToDigits(Cardinality({db.archived_content[i].ecocert_id :
                             i \in 1..Len(db.archived_content)}))]

\* statusCounts[status] || 0 after the reduce over the group rows.
StatusCount(rows, status) ==
  IF status \in DOMAIN rows THEN OrZero(ParseInt(rows[status])) ELSE 0

NoStats ==
  [total_ecocerts |-> 0, processed_ecocerts |-> 0, total_attestations |-> 0,
   total_urls_found |-> 0, successfully_archived |-> 0, failed_archives |-> 0,
   pending_archives |-> 0, average_urls_per_ecocert |-> Zero,
   success_rate |-> Zero]

\* The statistics computed from the four results.
ArchivingStats(ecocertStats, attestationStats, archiveStatusStats, overallStats) ==
  LET totalUrls == OrZero(ParseInt(overallStats.total_urls))
      successfullyArchived == StatusCount(archiveStatusStats, "completed")
      failedArchives == StatusCount(archiveStatusStats, "failed")
      pendingArchives == StatusCount(archiveStatusStats, "pending")
                           + StatusCount(archiveStatusStats, "downloading")
                           + StatusCount(archiveStatusStats, "uploading")
  IN [total_ecocerts |-> OrZero(ParseInt(ecocertStats.total)),
      processed_ecocerts |-> OrZero(ParseInt(ecocertStats.processed)),
      total_attestations |-> OrZero(ParseInt(attestationStats.total)),
      total_urls_found |-> totalUrls,
      successfully_archived |-> successfullyArchived,
      failed_archives |-> failedArchives,
      pending_archives |-> pendingArchives,
      average_urls_per_ecocert |->
        IF totalUrls > 0 /\ ParseInt(ecocertStats.total) > 0
        THEN Ratio(totalUrls, ParseInt(ecocertStats.total))
        ELSE Zero,
      success_rate |->
        IF totalUrls > 0 THEN Ratio(successfullyArchived * 100, totalUrls)
        ELSE Zero]

\* lastQuery of SpecStats is the getArchivingStats call: the statements that
\* have executed, their results, and the table the status statement read.
IdleStats ==
  [pc |-> "idle", done |-> {},
   ecocertStats |-> EcocertStats(EmptyDB),
   attestationStats |-> AttestationStats(EmptyDB),
   archiveStatusStats |-> ArchiveStatusStats(EmptyDB),
   overallStats |-> OverallStats(EmptyDB),
   read |-> <<>>, stats |-> NoStats]

statVars == <<storeVars, now, lastCall, pipeVars, runner, app, dl, up>>

\* getArchivingStats is called: ensureInitialized passes and the four
\* statements are handed to the pool.
GS_Call ==
  /\ lastQuery.pc = "idle"
  /\ lastQuery' = [IdleStats EXCEPT !.pc = "querying"]
  /\ UNCHANGED <<statVars, faults>>

\* One of the four statements executes.
GS_Query(q, fault) ==
  /\ lastQuery.pc = "querying"
  /\ q \notin lastQuery.done
  /\ FaultAllowed(fault)
  /\ lastQuery' =
       IF fault # "none" THEN [lastQuery EXCEPT !.pc = "thrown"]
       ELSE [lastQuery EXCEPT
               !.done = @ \cup {q},
               !.ecocertStats = IF q = "ecocerts" THEN EcocertStats(DB) ELSE @,
               !.attestationStats =
                 IF q = "attestations" THEN AttestationStats(DB) ELSE @,
               !.archiveStatusStats =
                 IF q = "status" THEN ArchiveStatusStats(DB) ELSE @,
               !.read = IF q = "status" THEN archived_content ELSE @,
               !.overallStats = IF q = "overall" THEN OverallStats(DB) ELSE @]
  /\ CountFault(fault)
  /\ UNCHANGED statVars

\* Promise.all resolves and the statistics are returned.
GS_Return ==
  /\ lastQuery.pc = "querying"
  /\ lastQuery.done = StatQueries
  /\ lastQuery' =
       [lastQuery EXCEPT
          !.pc = "returned",
          !.stats = ArchivingStats(lastQuery.ecocertStats,
                                   lastQuery.attestationStats,
                                   lastQuery.archiveStatusStats,
                                   lastQuery.overallStats)]
  /\ UNCHANGED <<statVars, faults>>

\* The records other callers insert carry a content identifier of their
\* own, as the integration tests insert them.
StatContents ==
  [ecocert_id : {"e1"}, attestation_uid : {"att_001"},
   original_url : {"u1"}, ipfs_hash : {<<"Qm", "c1">>, <<"Qm", "c2">>},
   ipfs_url : {<<>>}, status : {""}]

InitStats ==
  /\ ecocerts = EmptyDB.ecocerts
  /\ attestations = EmptyDB.attestations
  /\ archived_content = EmptyDB.archived_content
  /\ now = 0
  /\ faults = 0
  /\ lastQuery = IdleStats
  /\ lastCall = NoCall
  /\ NothingRunning

\* One statistics call while other callers of the store (a running
\* processBatch, another process of the CLI) write.
NextStats ==
  \/ GS_Call
  \/ \E q \in StatQueries, fault \in {"none", "s1"} : GS_Query(q, fault)
  \/ GS_Return
  \/ StoreInsertEcocert("e1", TitleOf("e1"), "none")
  \/ StoreInsertAttestation("att_001", "e1", "none")
  \/ \E content \in StatContents : StoreInsertArchivedContent(content, "none")
  \/ \E id \in 1..MaxRecords, status \in {"uploading", "completed"} :
       StoreUpdateArchiveStatus(id, status, <<>>, "none")

SpecStats == InitStats /\ [][NextStats]_vars

InProgress == {"pending", "downloading", "uploading"}

\* C31: the returned statistics have successRate = completed / totalUrls
\* x 100 (0 when totalUrls = 0) and averageUrlsPerIdentifier = totalUrls /
\* totalIdentifiers (0 when either is 0); the pending figure counts the
\* records in pending, downloading or uploading, and completed + failed +
\* pending = totalUrls.
C31_Statistics ==
  lastQuery.pc = "returned" =>
    LET s == lastQuery.stats IN
      /\ s.success_rate =
           IF s.total_urls_found = 0 THEN Zero
           ELSE Ratio(s.successfully_archived * 100, s.total_urls_found)
      /\ s.average_urls_per_ecocert =
           IF s.total_urls_found = 0 \/ s.total_ecocerts = 0 THEN Zero
           ELSE Ratio(s.total_urls_found, s.total_ecocerts)
      /\ s.pending_archives =
           Cardinality({i \in 1..Len(lastQuery.read) :
                          lastQuery.read[i].status \in InProgress})
      /\ s.successfully_archived + s.failed_archives + s.pending_archives
           = s.total_urls_found

(***************************************************************************)
(* SpecExtract: extractExternalUrls over every pair of attestations that    *)
(* carry up to MaxExtractSources sources between them, the sources drawn    *)
(* from every kind: url sources with https, http, ftp and unparsable        *)
(* texts, and ipfs and arweave sources, one of them carrying a text that    *)
(* is a valid https url.  task[1] holds the attestations and the urls       *)
(* returned.                                                                *)
(***************************************************************************)
MaxExtractSources == 4

ExtractSources ==
  {UrlSource("u1"), UrlSource("http://example.com/b"),
   UrlSource("HTTPS://Example.com/c"),
   UrlSource("ftp://example.com/file.txt"), UrlSource("invalid-url"),
   [type |-> "ipfs", src |-> "ipfs://QmHash123"],
   [type |-> "arweave", src |-> "u2"]}

ExtractSourceLists ==
  UNION {[1..n -> ExtractSources] : n \in 0..MaxExtractSources}

\* The first cut sources belong to att_001, the others to att_002.
ExtractInputs ==
  {<<[uid |-> "att_001", sources |-> SubSeq(all, 1, cut)],
     [uid |-> "att_002", sources |-> SubSeq(all, cut + 1, Len(all))]>> :
     <<all, cut>> \in {p \in ExtractSourceLists \X (0..MaxExtractSources) :
                         p[2] <= Len(p[1])}}

InitExtract ==
  /\ ecocerts = EmptyDB.ecocerts
  /\ attestations = EmptyDB.attestations
  /\ archived_content = <<>>
  /\ now = 0
  /\ faults = 0
  /\ lastQuery = NoQuery
  /\ lastCall = NoCall
  /\ ids = <<"e1">>
  /\ batch = IdleBatch
  /\ \E atts \in ExtractInputs :
       task = <<[attestations |-> atts, returned |-> FALSE, urls |-> <<>>]>>
  /\ runner = NoRunners
  /\ app = IdleApp
  /\ dl = NoDownloads
  /\ up = NoUploads

E_ExtractExternalUrls ==
  /\ ~task[1].returned
  /\ task' = [task EXCEPT
                ![1].returned = TRUE,
                ![1].urls = ExtractExternalUrls(task[1].attestations)]
  /\ UNCHANGED <<storeVars, now, faults, lastQuery, lastCall, ids, batch,
                 runner, app, dl, up>>

NextExtract == E_ExtractExternalUrls

SpecExtract == InitExtract /\ [][NextExtract]_vars

RECURSIVE AllSources(_)
\* The sources of all attestations, in the order of the input.
AllSources(atts) ==
  IF atts = <<>> THEN <<>> ELSE Head(atts).sources \o AllSources(Tail(atts))

\* A source whose src is to be returned: tagged url, and its text a
\* syntactically valid url of scheme http or https.
Wanted(source) ==
  /\ source.type = "url"
  /\ source.src \in {"u1", "u2", "u3", "http://example.com/b",
                     "HTTPS://Example.com/c"}

FirstOccurrence(all, src) ==
  CHOOSE i \in 1..Len(all) :
    /\ Wanted(all[i]) /\ all[i].src = src
    /\ \A j \in 1..(i - 1) : ~(Wanted(all[j]) /\ all[j].src = src)

\* C32: extractUrls returns exactly the src values of the sources tagged
\* url that are valid http/https urls, each once, in order of first
\* occurrence; ipfs and arweave sources, unparsable texts and other schemes
\* are excluded.
C32_ExtractUrls ==
  task[1].returned =>
    LET all == AllSources(task[1].attestations)
        urls == task[1].urls
    IN  /\ {urls[i] : i \in 1..Len(urls)}
             = {all[i].src : i \in {j \in 1..Len(all) : Wanted(all[j])}}
        /\ \A i, j \in 1..Len(urls) : i # j => urls[i] # urls[j]
        /\ \A i, j \in 1..Len(urls) :
             i < j => FirstOccurrence(all, urls[i]) < FirstOccurrence(all, urls[j])

\* A url that occurs twice in one attestation and again in the next, beside
\* an ipfs source, is returned once.
C32_Witness ==
  /\ task[1].returned
  /\ Len(task[1].attestations) = 2
  /\ task[1].attestations[1].sources = <<UrlSource("u1"), UrlSource("u1")>>
  /\ task[1].attestations[2].sources =
       <<[type |-> "ipfs", src |-> "ipfs://QmHash123"], UrlSource("u1")>>
  /\ task[1].urls = <<"u1">>

(***************************************************************************)
(* parseEcocertId.  A string is the sequence of its characters; split,      *)
(* the three regular expressions and the template of fullId work on the     *)
(* characters.  The address length of the pattern is scaled down from 40.   *)
(***************************************************************************)
addressDigits == 2
MaxSegments == 4

HexLetters == {"a", "b", "c", "d", "e", "f", "A", "B", "C", "D", "E", "F"}

RECURSIVE SplitFrom(_, _, _)
\* The parts of s from character i on, cur being the part begun so far.
SplitFrom(s, i, cur) ==
  IF i > Len(s) THEN <<cur>>
  ELSE IF s[i] = "-" THEN <<cur>> \o SplitFrom(s, i + 1, <<>>)
  ELSE SplitFrom(s, i + 1, Append(cur, s[i]))

\* ecocertId.split('-')
Split(s) == SplitFrom(s, 1, <<>>)

\* /^\d+$/
DigitsPattern(text) ==
  Len(text) >= 1 /\ \A i \in 1..Len(text) : IsDigit(text[i])

\* The address pattern without its count of 40.
AddressPatternAnyLength(text) ==
  /\ Len(text) >= 2
  /\ text[1] = "0" /\ text[2] = "x"
  /\ \A i \in 3..Len(text) : IsDigit(text[i]) \/ text[i] \in HexLetters

\* /^0x[a-fA-F0-9]{40}$/
AddressPattern(text) ==
  /\ Len(text) = 2 + addressDigits
  /\ text[1] = "0" /\ text[2] = "x"
  /\ \A i \in 3..Len(text) : IsDigit(text[i]) \/ text[i] \in HexLetters

NoEcocertId == [chainId |-> <<>>, contractAddress |-> <<>>, tokenId |-> <<>>,
                fullId |-> <<>>]

\* parseEcocertId: the EcocertId it returns, or the Error it throws.
ParseEcocertId(ecocertId) ==
  LET parts == Split(ecocertId) IN
    IF Len(parts) # 3
      THEN [ok |-> FALSE, id |-> NoEcocertId,
            msg |-> <<"Invalid ecocert ID format: ">> \o ecocertId]
    ELSE IF ~DigitsPattern(parts[1])
      THEN [ok |-> FALSE, id |-> NoEcocertId,
            msg |-> <<"Invalid chain ID in ecocert ID: ">> \o parts[1]]
    ELSE IF ~AddressPattern(parts[2])
      THEN [ok |-> FALSE, id |-> NoEcocertId,
            msg |-> <<"Invalid contract address in ecocert ID: ">> \o parts[2]]
    ELSE IF ~DigitsPattern(parts[3])
      THEN [ok |-> FALSE, id |-> NoEcocertId,
            msg |-> <<"Invalid token ID in ecocert ID: ">> \o parts[3]]
    ELSE [ok |-> TRUE,
          id |-> [chainId |-> parts[1], contractAddress |-> parts[2],
                  tokenId |-> parts[3], fullId |-> ecocertId],
          msg |-> <<>>]

(***************************************************************************)
(* SpecParse: parseEcocertId over every string made of up to MaxSegments    *)
(* dash-free pieces joined by dashes, the pieces drawn from digit strings,  *)
(* addresses of the right and of wrong lengths with hex letters of both     *)
(* cases, with a capital X and with a letter outside a-f, the empty piece,  *)
(* and a digit followed by a line break.  task[1] holds the input and what  *)
(* the call gave.                                                           *)
(***************************************************************************)
Pieces ==
  {<<>>, <<"7">>, <<"4", "2">>, <<"7", "\n">>,
   <<"0", "x", "a", "B">>, <<"0", "x", "a">>, <<"0", "x", "a", "B", "c">>,
   <<"0", "X", "a", "B">>, <<"0", "x", "a", "g">>}

RECURSIVE JoinDash(_)
JoinDash(pieces) ==
  IF Len(pieces) = 1 THEN pieces[1]
  ELSE pieces[1] \o <<"-">> \o JoinDash(Tail(pieces))

ParseInputs ==
  {JoinDash(pieces) : pieces \in UNION {[1..n -> Pieces] : n \in 1..MaxSegments}}

InitParse ==
  /\ ecocerts = EmptyDB.ecocerts
  /\ attestations = EmptyDB.attestations
  /\ archived_content = <<>>
  /\ now = 0
  /\ faults = 0
  /\ lastQuery = NoQuery
  /\ lastCall = NoCall
  /\ ids = <<>>
  /\ batch = IdleBatch
  /\ \E input \in ParseInputs :
       task = <<[input |-> input, returned |-> FALSE,
                 result |-> [ok |-> FALSE, id |-> NoEcocertId, msg |-> <<>>]]>>
  /\ runner = NoRunners
  /\ app = IdleApp
  /\ dl = NoDownloads
  /\ up = NoUploads

P_ParseEcocertId ==
  /\ ~task[1].returned
  /\ task' = [task EXCEPT ![1].returned = TRUE,
                          ![1].result = ParseEcocertId(task[1].input)]
  /\ UNCHANGED <<storeVars, now, faults, lastQuery, lastCall, ids, batch,
                 runner, app, dl, up>>

NextParse == P_ParseEcocertId

SpecParse == InitParse /\ [][NextParse]_vars

DecimalDigits == {"0", "1", "2", "3", "4", "5", "6", "7", "8", "9"}

\* s is digits, a dash, 0x and addressDigits hex digits, a dash, digits.
ThreeSegments(s) ==
  \E i, j \in 1..Len(s) :
    /\ i > 1 /\ j = i + 3 + addressDigits /\ j < Len(s)
    /\ s[i] = "-" /\ s[j] = "-"
    /\ \A k \in 1..(i - 1) : s[k] \in DecimalDigits
    /\ s[i + 1] = "0" /\ s[i + 2] = "x"
    /\ \A k \in (i + 3)..(j - 1) : s[k] \in DecimalDigits \cup HexLetters
    /\ \A k \in (j + 1)..Len(s) : s[k] \in DecimalDigits

\* C33: parseIdentifier accepts exactly the strings of three dash-separated
\* segments whose first and third are non-empty digit strings and whose
\* second is 0x followed by the hex digits of an address, and rejects every
\* other string; for an accepted input fullId = input = chainId + '-' +
\* contractAddress + '-' + tokenId.
C33_ParseIdentifier ==
  task[1].returned =>
    LET r == task[1].result IN
      /\ r.ok <=> ThreeSegments(task[1].input)
      /\ r.ok =>
           /\ r.id.fullId = task[1].input
           /\ task[1].input =
                r.id.chainId \o <<"-">> \o r.id.contractAddress \o <<"-">>
                  \o r.id.tokenId

C33_Witness ==
  /\ task[1].returned
  /\ task[1].input = <<"4", "2", "-", "0", "x", "a", "B", "-", "7">>
  /\ task[1].result.ok
  /\ task[1].result.id.contractAddress = <<"0", "x", "a", "B">>

(***************************************************************************)
(* Properties of archive records under overlapping retryFailedArchives      *)
(* calls (SpecRetry).                                                       *)
(***************************************************************************)
CompletedStaysAsItIs ==
  \A i \in 1..Len(archived_content) :
    archived_content[i].status = "completed" =>
      /\ archived_content'[i].status = "completed"
      /\ archived_content'[i].ipfs_hash = archived_content[i].ipfs_hash
      /\ archived_content'[i].error_message = archived_content[i].error_message

\* C34: once an archive record is completed, its status, its content
\* identifier and its error message never change again, also when two
\* retryFailed calls selected the same failed record.
C34_CompletedIsFinal == [][CompletedStaysAsItIs]_vars

\* C35: the retryCount of every archive record is at most 3 in every
\* reachable state, also with two retryFailed calls running at once.
C35_RetryCountCapped ==
  \A i \in 1..Len(archived_content) :
    archived_content[i].retry_count <= maxRetries

\* C36: when processIdentifier returns, no archive record it created is left
\* in pending, downloading or uploading: each is completed or failed, also
\* when a store write of the run failed, the one that records the failure
\* included.
C36_NothingLeftInProgress ==
  \A k \in Tasks :
    Returned(k) =>
      \A i \in 1..Len(task[k].runs) :
        task[k].runs[i].archiveId > 0 =>
          archived_content[task[k].runs[i].archiveId].status
            \in {"completed", "failed"}

\* A step in which the insertArchivedContent of a processUrl call ended
\* with no store failure injected, for an identifier and an attestation that
\* are stored.
CreateCalled(k) ==
  /\ k \in Tasks
  /\ task[k].pc = "urlInsert" /\ task'[k].pc # "urlInsert"
  /\ faults' = faults
  /\ ecocerts[ids[k]].present
  /\ attestations[MockAttestations(ids[k])[1].uid] # NoRow

\* C37: createArchiveRecord for an existing identifier and a persisted
\* attestation succeeds whenever the store is reachable, whatever other
\* archive records are present: records without a content identifier
\* (pending, in flight or failed) do not block the creation of another.
C37_CreateNeverBlocked ==
  [][\A k \in 1..MaxIds :
       CreateCalled(k) => Len(archived_content') = Len(archived_content) + 1]_vars

\* C38: shutdown() does not destroy the store's connections while a
\* retryFailed call that started before it is still in flight and the grace
\* period has not expired.
C38_RetryIsAwaited ==
  app.destroyCalled =>
    \/ app.call["retryFailed"].pc # "running"
    \/ app.timer = "fired"

(***************************************************************************)
(* SpecLoop: the loop shared by processBatch, downloadBatch and             *)
(* uploadBatch,                                                             *)
(*   for (let i = 0; i < items.length; i += maxConcurrent) {                *)
(*     await Promise.all(items.slice(i, i + maxConcurrent).map(op)) ... }   *)
(* with maxConcurrent = parseInt(process.env.MAX_CONCURRENT_... || dflt)    *)
(* read from the environment, any non-negative integer.  batch holds the    *)
(* function called, its setting, the loop variable and the state of the     *)
(* call; task[k] is the operation on item k.  Every item operation that     *)
(* was started settles (fairness of SpecLoop).  The item promises of        *)
(* processBatch and downloadBatch never reject; those of uploadBatch        *)
(* reject when the upload fails, and Promise.all then rejects at once into  *)
(* the catch inside the loop.                                               *)
(***************************************************************************)
MaxItems == 3
MaxSetting == 3

BatchFunctions == {"processBatch", "downloadBatch", "uploadBatch"}

\* items.slice(i, i + maxConcurrent), as positions of the list.
Slice(n, i, setting) == {k \in 1..n : i < k /\ k <= i + setting}

\* The await of Promise.all over the slice is over.
SliceSettled(b, items) ==
  LET slice == Slice(Len(items), b.i, b.maxConcurrent) IN
    \/ \A k \in slice : items[k] \in {"ok", "failed"}
    \/ b.fn = "uploadBatch" /\ \E k \in slice : items[k] = "failed"

\* After the loop: uploadBatch throws BATCH_UPLOAD_FAILED when uploads have
\* failed and none has succeeded; otherwise the results are returned.
LoopExit(b, items) ==
  IF /\ b.fn = "uploadBatch"
     /\ \E k \in 1..Len(items) : items[k] = "failed"
     /\ \A k \in 1..Len(items) : items[k] # "ok"
    THEN "threw" ELSE "returned"

\* The loop test and, when it holds, the start of the slice's operations.
LoopHead(b, items, i) ==
  IF i < Len(items)
    THEN [batch |-> [b EXCEPT !.i = i, !.pc = "awaiting"],
          task |-> [k \in 1..Len(items) |->
                      IF k \in Slice(Len(items), i, b.maxConcurrent)
                        THEN "running" ELSE items[k]]]
    ELSE [batch |-> [b EXCEPT !.i = i, !.pc = LoopExit(b, items)],
          task |-> items]

InitLoop ==
  /\ ecocerts = EmptyDB.ecocerts
  /\ attestations = EmptyDB.attestations
  /\ archived_content = <<>>
  /\ now = 0
  /\ faults = 0
  /\ lastQuery = NoQuery
  /\ lastCall = NoCall
  /\ ids = <<>>
  /\ \E fn \in BatchFunctions, setting \in 0..MaxSetting :
       batch = [fn |-> fn, maxConcurrent |-> setting, i |-> 0, pc |-> "idle"]
  /\ \E n \in 0..MaxItems : task = [k \in 1..n |-> "notStarted"]
  /\ runner = NoRunners
  /\ app = IdleApp
  /\ dl = NoDownloads
  /\ up = NoUploads

loopVars == <<storeVars, now, faults, lastQuery, lastCall, ids, runner, app,
              dl, up>>

\* The batch function is called: i = 0 and the first loop test.
BL_Call ==
  /\ batch.pc = "idle"
  /\ LET h == LoopHead(batch, task, 0) IN
       batch' = h.batch /\ task' = h.task
  /\ UNCHANGED loopVars

\* The operation on item k settles.
BL_ItemSettles(k, ok) ==
  /\ k \in 1..Len(task)
  /\ task[k] = "running"
  /\ task' = [task EXCEPT ![k] = IF ok THEN "ok" ELSE "failed"]
  /\ UNCHANGED <<batch, loopVars>>

\* The await of the slice is over: i += maxConcurrent and the next loop
\* test.
BL_SliceSettled ==
  /\ batch.pc = "awaiting"
  /\ SliceSettled(batch, task)
  /\ LET h == LoopHead(batch, task, batch.i + batch.maxConcurrent) IN
       batch' = h.batch /\ task' = h.task
  /\ UNCHANGED loopVars

NextLoop ==
  \/ BL_Call
  \/ \E k \in 1..MaxItems, ok \in BOOLEAN : BL_ItemSettles(k, ok)
  \/ BL_SliceSettled

SpecLoop == InitLoop /\ [][NextLoop]_vars /\ WF_vars(NextLoop)

\* C39: processBatch, downloadBatch and uploadBatch terminate for every
\* finite list and every non-negative concurrency setting, 0 included, given
\* that every item operation terminates, and have then processed every item.
C39_BatchTerminates ==
  /\ <>(batch.pc \in {"returned", "threw"})
  /\ [](batch.pc \in {"returned", "threw"} =>
          \A k \in 1..Len(task) : task[k] \in {"ok", "failed"})

====
